---- MODULE Spec2Model ----
(***************************************************************************)
(* A model of the text layout core of the canvas library (text.go and the  *)
(* script itemizer of the text package).                                   *)
(*                                                                         *)
(* The module holds several state machines over one set of variables:      *)
(*   - the RichText builder (WriteString, SetFace, SetFaceSpan, AddCanvas, *)
(*     Reset);                                                             *)
(*   - ScriptItemizer, one step per rune of its loop;                      *)
(*   - the token coalescing pass of ToText, one step per loop iteration;   *)
(*   - the line assembly loop of ToText, one step per item.                *)
(* Go slices are 0-based; the helpers At, Take and Drop keep the source's  *)
(* 0-based indices so that the translated code reads like the source.      *)
(***************************************************************************)
EXTENDS Integers, Sequences, FiniteSets, TLC

VARIABLES
    \* RichText (text.go:315-324)
    text,         \* rt.Builder: the buffer, a sequence of runes (code points)
    locs,         \* rt.locs: face locations, in runes
    faces,        \* rt.faces
    objects,      \* rt.objects: the number of objects in the table
    defaultFace,  \* rt.defaultFace
    panicked,     \* a run-time panic (index out of range) has unwound the call
    \* ScriptItemizer: its arguments, its locals and its position
    it,
    \* ToText: its arguments, its locals and its position
    tt,
    \* Text.Fonts: the fonts of the Text, the locals and the position
    fn,
    \* scriptDirection: its arguments and its results
    sd,
    \* NewTextLine: its arguments and the Text it returns
    tl,
    \* Text.Size: the box ToText was called with, the Text and the result
    sz

rtVars == <<text, locs, faces, objects, defaultFace, panicked>>

vars == <<text, locs, faces, objects, defaultFace, panicked, it, tt, fn, sd, tl, sz>>

----------------------------------------------------------------------------
(* Bounds of the model *)

\* the largest number of runes the buffer holds
MaxRunes == 3
\* the largest number of embedded objects
MaxObjects == 1
\* the largest number of entries of the face list
MaxLocs == 3
\* the largest number of runes ScriptItemizer is given
MaxItemizerRunes == 3
\* the largest embedding level
MaxLevel == 2

----------------------------------------------------------------------------
(* 0-based slice helpers *)

At(s, i) == s[i + 1]
Take(s, n) == SubSeq(s, 1, n)
Drop(s, n) == SubSeq(s, n + 1, Len(s))
Last(s) == s[Len(s)]
Front(s) == SubSeq(s, 1, Len(s) - 1)

RECURSIVE SumSeq(_)
SumSeq(s) == IF s = <<>> THEN 0 ELSE Head(s) + SumSeq(Tail(s))

----------------------------------------------------------------------------
(* Strings: a string is a sequence of runes, its bytes are UTF-8 *)

\* utf8.RuneLen: the number of bytes of the UTF-8 encoding of a rune
RuneLen(r) == IF r < 128 THEN 1 ELSE IF r < 2048 THEN 2 ELSE IF r < 65536 THEN 3 ELSE 4

\* strings.Builder.Len: the length of the buffer in bytes
RECURSIVE ByteLen(_)
ByteLen(s) == IF s = <<>> THEN 0 ELSE RuneLen(Head(s)) + ByteLen(Tail(s))

\* the byte offset at which rune number r (0-based) of s starts
ByteOffset(s, r) == ByteLen(Take(s, r))

\* len([]rune(s[:n])): the runes wholly inside the first n bytes, plus one
\* RuneError for every byte of a rune that the cut leaves incomplete
RECURSIVE RuneCountPrefix(_, _)
RuneCountPrefix(s, n) ==
    IF n <= 0 \/ s = <<>> THEN 0
    ELSE IF RuneLen(Head(s)) <= n THEN 1 + RuneCountPrefix(Tail(s), n - RuneLen(Head(s)))
    ELSE n

\* the runes WriteString is called with: 'a' (one byte) and U+00E9 (two bytes)
WriteRunes == {97, 233}
\* the font faces a caller sets
Faces == {"A", "B"}
\* the nil *FontFace that marks an object
NilFace == "nil"

\* the byte offsets at which a rune of s starts, and the end of s
RuneStarts(s) == {ByteOffset(s, r) : r \in 0..Len(s)}
\* the ends SetFaceSpan is called with for a start: start itself (an empty
\* range), the later rune boundaries, and one byte past the end of the buffer
SpanEnds(s, start) == {e \in RuneStarts(s) : start <= e} \cup {ByteLen(s) + 1}

WriteStrings == {<<r>> : r \in WriteRunes}

----------------------------------------------------------------------------
(* indexer.index *)

RECURSIVE indexFrom(_, _, _)
indexFrom(indexer, loc, index) ==
    IF index >= Len(indexer) THEN Len(indexer) - 1
    ELSE IF loc < At(indexer, index) THEN index - 1
    ELSE indexFrom(indexer, loc, index + 1)

index(indexer, loc) == indexFrom(indexer, loc, 0)

\* the face ToText looks up for rune number r: rt.faces[rt.locs.index(r)];
\* "out of range" when the index is not one of rt.faces
FaceOf(ls, fs, r) ==
    LET n == index(ls, r)
    IN  IF 0 <= n /\ n < Len(fs) THEN At(fs, n) ELSE "out of range"

----------------------------------------------------------------------------
(* RichText *)

\* NewRichText
RTInit ==
    /\ text = <<>>
    /\ locs = <<0>>
    /\ defaultFace \in Faces
    /\ faces = <<defaultFace>>
    /\ objects = 0
    /\ panicked = FALSE

\* setFace on the state [text, locs, faces]
setFace(st, face) ==
    IF face = Last(st.faces) THEN st
    ELSE LET prevLoc == Last(st.locs)
             popped  == IF ByteLen(st.text) - prevLoc = 0
                        THEN [st EXCEPT !.locs = Front(st.locs), !.faces = Front(st.faces)]
                        ELSE st
         IN  [popped EXCEPT !.locs = Append(popped.locs, Len(st.text)),
                            !.faces = Append(popped.faces, face)]

rtState == [text |-> text, locs |-> locs, faces |-> faces]

WriteString(s) ==
    /\ ~panicked
    /\ Len(text) + Len(s) <= MaxRunes
    /\ text' = text \o s
    /\ UNCHANGED <<locs, faces, objects, defaultFace, panicked>>

SetFace(face) ==
    /\ ~panicked
    /\ LET st == setFace(rtState, face)
       IN  /\ Len(st.locs) <= MaxLocs
           /\ locs' = st.locs
           /\ faces' = st.faces
    /\ UNCHANGED <<text, objects, defaultFace, panicked>>

\* the loop of SetFaceSpan: <<i, j>> when it ends
RECURSIVE spanScan(_, _, _, _, _, _)
spanScan(ls, start, end, k, i, j) ==
    IF k >= Len(ls) THEN <<i, j>>
    ELSE LET i2 == IF At(ls, k) < start THEN k ELSE i
         IN  IF end <= At(ls, k) THEN <<i2, k - 1>>
             ELSE spanScan(ls, start, end, k + 1, i2, j)

\* the three assignments that end SetFaceSpan (text.go:400-402), or the panic
\* of rt.locs[j] when j is -1; the loop leaves i <= j, so the entry j that is
\* overwritten with endLoc lies in rt.locs[j:] and not in rt.locs[:i]
spanSplice(st, face, startLoc, endLoc, i, j) ==
    IF j < 0
    THEN [locs |-> st.locs, faces |-> st.faces, panic |-> TRUE]
    ELSE [locs  |-> Take(st.locs, i) \o <<startLoc>> \o <<endLoc>> \o Drop(st.locs, j + 1),
          faces |-> Take(st.faces, i) \o <<face>> \o Drop(st.faces, j),
          panic |-> FALSE]

spanClipped(st, face, start, end) ==
    spanSplice(st, face, RuneCountPrefix(st.text, start), RuneCountPrefix(st.text, end),
               spanScan(st.locs, start, end, 0, 0, Len(st.locs) - 1)[1],
               spanScan(st.locs, start, end, 0, 0, Len(st.locs) - 1)[2])

spanLen(st, face, start, end0, len) ==
    IF end0 <= start \/ len <= start
    THEN [locs |-> st.locs, faces |-> st.faces, panic |-> FALSE]
    ELSE spanClipped(st, face, start, IF len < end0 THEN len ELSE end0)

\* SetFaceSpan on the state [text, locs, faces]: the new lists, or a panic
setFaceSpan(st, face, start, end0) == spanLen(st, face, start, end0, ByteLen(st.text))

SetFaceSpan(face, start, end0) ==
    /\ ~panicked
    /\ \E r \in {setFaceSpan(rtState, face, start, end0)} :
           /\ Len(r.locs) <= MaxLocs
           /\ locs' = r.locs
           /\ faces' = r.faces
           /\ panicked' = r.panic
    /\ UNCHANGED <<text, objects, defaultFace>>

\* lines 416-425 on the state [text, locs, faces]: the nil face, the rune of
\* the index of the object, and the face that was active again
addCanvas(st, n) ==
    LET face == Last(st.faces)
        st1  == setFace(st, NilFace)
        st2  == [st1 EXCEPT !.text = Append(st1.text, n)]
    IN  setFace(st2, face)

AddCanvas ==
    /\ ~panicked
    /\ objects < MaxObjects
    /\ Len(text) < MaxRunes
    /\ LET st3 == addCanvas(rtState, objects)
       IN  /\ Len(st3.locs) <= MaxLocs
           /\ text' = st3.text
           /\ locs' = st3.locs
           /\ faces' = st3.faces
    /\ objects' = objects + 1
    /\ UNCHANGED <<defaultFace, panicked>>

Reset ==
    /\ ~panicked
    /\ text' = <<>>
    /\ locs' = Take(locs, 1)
    /\ faces' = Take(faces, 1)
    /\ UNCHANGED <<objects, defaultFace, panicked>>

----------------------------------------------------------------------------
(* Specifications of the RichText builder *)

\* the builder is not in use
RTIdle ==
    /\ text = <<>>
    /\ locs = <<0>>
    /\ defaultFace = "A"
    /\ faces = <<"A">>
    /\ objects = 0
    /\ panicked = FALSE

\* ScriptItemizer is not running
ItIdle == it = [pc |-> "idle"]

\* ToText is not running
TTIdle == tt = [pc |-> "idle"]

\* Fonts is not running
FnIdle == fn = [pc |-> "idle"]

\* scriptDirection is not running
SdIdle == sd = [pc |-> "idle"]

\* NewTextLine is not running
TlIdle == tl = [pc |-> "idle"]

\* no Text is asked for its size
SzIdle == sz = [pc |-> "idle"]

Init ==
    /\ RTInit
    /\ ItIdle
    /\ TTIdle
    /\ FnIdle
    /\ SdIdle
    /\ TlIdle
    /\ SzIdle

\* WriteString and SetFace only
NextFace ==
    \/ \E s \in WriteStrings : WriteString(s) /\ UNCHANGED <<it, tt, fn, sd, tl, sz>>
    \/ \E face \in Faces : SetFace(face) /\ UNCHANGED <<it, tt, fn, sd, tl, sz>>

SpecFace == Init /\ [][NextFace]_vars

\* WriteString, SetFace, SetFaceSpan and AddCanvas
NextRich ==
    \/ \E s \in WriteStrings : WriteString(s) /\ UNCHANGED <<it, tt, fn, sd, tl, sz>>
    \/ \E face \in Faces : SetFace(face) /\ UNCHANGED <<it, tt, fn, sd, tl, sz>>
    \/ \E face \in Faces, start \in RuneStarts(text) : \E end \in SpanEnds(text, start) :
          SetFaceSpan(face, start, end) /\ UNCHANGED <<it, tt, fn, sd, tl, sz>>
    \/ AddCanvas /\ UNCHANGED <<it, tt, fn, sd, tl, sz>>

SpecRich == Init /\ [][NextRich]_vars

Next ==
    \/ NextRich
    \/ Reset /\ UNCHANGED <<it, tt, fn, sd, tl, sz>>

Spec == Init /\ [][Next]_vars

----------------------------------------------------------------------------
(* ScriptItemizer (text package) *)

\* the runes the itemizer is given: 'a', GREEK SMALL LETTER ALPHA, SPACE and
\* COMBINING ACUTE ACCENT
ItemizerRunes == {97, 945, 32, 769}

\* LookupScript: the Unicode script of a rune
LookupScript(r) ==
    CASE r = 97  -> "Latin"
      [] r = 945 -> "Greek"
      [] r = 1488 -> "Hebrew"
      [] r = 769 -> "Inherited"
      [] OTHER   -> "Common"

\* script != ScriptInherited && script != ScriptCommon
IsConcrete(script) == script # "Inherited" /\ script # "Common"

RECURSIVE padInherited(_, _)
padInherited(scripts, level) ==
    IF Len(scripts) < level THEN padInherited(Append(scripts, "Inherited"), level) ELSE scripts

\* the script stack after a rune of the given script and level
pushScript(scripts, script, level) ==
    IF Len(scripts) <= level
    THEN Append(padInherited(scripts, level), script)
    ELSE Take(IF IsConcrete(script) THEN [scripts EXCEPT ![level + 1] = script] ELSE scripts,
              level + 1)

\* the script of the rune as the loop goes on with it: the script recorded for
\* its level when the rune itself is inherited or common
effectiveScript(scripts, script, level) ==
    IF Len(scripts) <= level \/ IsConcrete(script) THEN script ELSE At(scripts, level)

\* a slip: the run is closed on a change of script only
isBoundaryScriptOnly(j, curLevel, level, curScript, script) ==
    j # 0 /\ curScript # script /\ IsConcrete(curScript) /\ IsConcrete(script)

\* the condition under which the loop closes the run before rune j
isBoundary(j, curLevel, level, curScript, script) ==
    j # 0 /\ (curLevel # level
               \/ (curScript # script /\ IsConcrete(curScript) /\ IsConcrete(script)))

\* string(runes[i:j])
runeSlice(runes, i, j) == SubSeq(runes, i + 1, j)

Itemizers ==
    {[runes |-> rs, levels |-> ls] :
        rs \in UNION {[1..n -> ItemizerRunes] : n \in 0..MaxItemizerRunes},
        ls \in UNION {[1..n -> 0..MaxLevel] : n \in 0..MaxItemizerRunes}}

ItInit ==
    \E in \in {x \in Itemizers : Len(x.runes) = Len(x.levels)} :
        it = [pc |-> "start", runes |-> in.runes, levels |-> in.levels]

\* lines 16-22: the empty input returns at once, any other enters the loop
ItemizeStart ==
    /\ it.pc = "start"
    /\ it' = IF Len(it.runes) = 0
             THEN [pc |-> "done", runes |-> it.runes, levels |-> it.levels, items |-> <<>>]
             ELSE [pc |-> "loop", runes |-> it.runes, levels |-> it.levels,
                   j |-> 0, i |-> 0, items |-> <<>>, scripts |-> <<"Inherited">>, eff |-> <<>>]
    /\ UNCHANGED <<rtVars, tt, fn, sd, tl, sz>>

\* lines 23-48: one iteration of the loop over the runes, on the locals
\* [runes, levels, j, i, items, scripts]; eff records the script the iteration
\* went on with
itemizeRune(s) ==
    LET curLevel  == Len(s.scripts) - 1
        curScript == At(s.scripts, curLevel)
        level     == At(s.levels, s.j)
        script    == effectiveScript(s.scripts, LookupScript(At(s.runes, s.j)), level)
        cut       == isBoundary(s.j, curLevel, level, curScript, script)
    IN  [s EXCEPT
           !.scripts = pushScript(s.scripts, LookupScript(At(s.runes, s.j)), level),
           !.eff = Append(s.eff, script),
           !.items = IF cut
                     THEN Append(s.items, [Script |-> curScript,
                                           Text |-> runeSlice(s.runes, s.i, s.j)])
                     ELSE s.items,
           !.i = IF cut THEN s.j ELSE s.i,
           !.j = s.j + 1]

ItemizeRune ==
    /\ it.pc = "loop"
    /\ it.j < Len(it.runes)
    /\ it' = itemizeRune(it)
    /\ UNCHANGED <<rtVars, tt, fn, sd, tl, sz>>

\* a slip: the run that is open when the input ends is not returned
ItemizeReturnWithoutLastRun ==
    /\ it.pc = "loop"
    /\ it.j = Len(it.runes)
    /\ it' = [pc |-> "done", runes |-> it.runes, levels |-> it.levels, eff |-> it.eff,
              items |-> it.items]
    /\ UNCHANGED <<rtVars, tt, fn, sd, tl, sz>>

\* lines 49-53: the last run
ItemizeReturn ==
    /\ it.pc = "loop"
    /\ it.j = Len(it.runes)
    /\ it' = [pc |-> "done", runes |-> it.runes, levels |-> it.levels, eff |-> it.eff,
              items |-> Append(it.items, [Script |-> Last(it.scripts),
                                          Text |-> runeSlice(it.runes, it.i, Len(it.runes))])]
    /\ UNCHANGED <<rtVars, tt, fn, sd, tl, sz>>

\* the whole of ScriptItemizer, as ToText calls it
RECURSIVE itemizeLoop(_)
itemizeLoop(s) == IF s.j < Len(s.runes) THEN itemizeLoop(itemizeRune(s)) ELSE s

ScriptItemizer(runes, levels) ==
    IF Len(runes) = 0 THEN <<>>
    ELSE LET s == itemizeLoop([pc |-> "loop", runes |-> runes, levels |-> levels, j |-> 0,
                               i |-> 0, items |-> <<>>, scripts |-> <<"Inherited">>,
                               eff |-> <<>>])
         IN  Append(s.items, [Script |-> Last(s.scripts),
                              Text |-> runeSlice(runes, s.i, Len(runes))])

NextItemizer ==
    \/ ItemizeStart
    \/ ItemizeRune
    \/ ItemizeReturn

InitItemizer ==
    /\ RTIdle
    /\ ItInit
    /\ TTIdle
    /\ FnIdle
    /\ SdIdle
    /\ TlIdle
    /\ SzIdle

SpecItemizer == InitItemizer /\ [][NextItemizer]_vars

----------------------------------------------------------------------------
(* ToText: the clean-up of the items after line breaking (text.go:649-712) *)

\* items of the text package: text.Box, text.Glue, text.Penalty. Widths are
\* whole numbers; PosInf stands for math.Inf(1)
PosInf == 1000

Box(width, size) ==
    [Type |-> "Box", Width |-> width, Stretch |-> 0, Shrink |-> 0, Penalty |-> 0, Size |-> size]
Glue(width, stretch, shrink, size) ==
    [Type |-> "Glue", Width |-> width, Stretch |-> stretch, Shrink |-> shrink, Penalty |-> 0,
     Size |-> size]
Penalty(width, penalty, size) ==
    [Type |-> "Penalty", Width |-> width, Stretch |-> 0, Shrink |-> 0, Penalty |-> penalty,
     Size |-> size]

\* text.Infinity, the cost of a break that is forbidden (or, negated, forced)
Infinity == 1000

\* the sum of two stretches (or shrinks), either of which may be infinite
addFlex(a, b) == IF a >= PosInf \/ b >= PosInf THEN PosInf ELSE a + b

\* a slip: the item after the one removed goes with it
removeAtAndNext(items, k) == Take(items, k) \o Drop(items, k + 2)

\* append(items[:k], items[k+1:]...)
removeAt(items, k) == Take(items, k) \o Drop(items, k + 1)

\* a slip: the shift of the breaks is not counted
dropIndentUnshifted(c) ==
    IF 0 < Len(c.items) /\ At(c.items, 0).Width = 0
    THEN [c EXCEPT !.items = Drop(c.items, 1)]
    ELSE c

\* lines 653-657: remove the empty indent box
dropIndent(c) ==
    IF 0 < Len(c.items) /\ At(c.items, 0).Width = 0
    THEN [c EXCEPT !.items = Drop(c.items, 1), !.shift = c.shift + 1]
    ELSE c

\* lines 659-711: one iteration of the loop, on [items, breaks, k, j, shift, i];
\* k is the index the iteration starts with, and the k++ of the loop is done
coalesceItem(c) ==
    LET k      == c.k
        items  == c.items
        breaks == c.breaks
        j      == c.j
        shift  == c.shift
        cur    == At(items, k)
        brk    == At(breaks, j)
        next   == [c EXCEPT !.i = c.i + cur.Size]
    IN  IF k = brk.Position - shift
        THEN \* keep breaking item
             [next EXCEPT !.breaks[j + 1].Position = brk.Position - shift,
                          !.j = j + 1, !.k = k + 1]
        ELSE IF 0 < k /\ cur.Type = "Glue" /\ 0 < j /\ k - 1 = At(breaks, j - 1).Position
        THEN \* put spaces at the beginning of the line into the break
             [next EXCEPT !.items = removeAt([items EXCEPT ![k].Size = @ + cur.Size], k),
                          !.shift = shift + 1]
        ELSE IF k + 1 < Len(items) /\ cur.Type = "Glue" /\ k + 1 = brk.Position - shift
        THEN \* put spaces at the end of the line into the break
             [next EXCEPT !.items = removeAt([items EXCEPT ![k + 2].Size = @ + cur.Size], k),
                          !.shift = shift + 1]
        ELSE IF cur.Type = "Penalty" /\ cur.Size = 0
        THEN \* remove non-breaking penalties
             [next EXCEPT !.items = removeAt(items, k), !.shift = shift + 1]
        ELSE IF cur.Type = "Glue" /\ cur.Size = 0 /\ brk.Ratio = 0
        THEN \* remove empty glues
             [next EXCEPT !.items = removeAt(items, k), !.shift = shift + 1]
        ELSE IF 0 < k /\ cur.Type = "Glue" /\ At(items, k - 1).Type = "Glue"
        THEN \* merge glues, and parse the merged glue again
             [next EXCEPT !.items = removeAt([items EXCEPT
                                                ![k].Width = @ + cur.Width,
                                                ![k].Stretch = addFlex(@, cur.Stretch),
                                                ![k].Shrink = addFlex(@, cur.Shrink),
                                                ![k].Size = @ + cur.Size], k),
                          !.shift = shift + 1, !.k = k - 1]
        ELSE IF 0 < k /\ cur.Type = "Box" /\ At(items, k - 1).Type = "Box"
        THEN \* merge boxes
             [next EXCEPT !.items = removeAt([items EXCEPT ![k].Width = @ + cur.Width,
                                                          ![k].Size = @ + cur.Size], k),
                          !.shift = shift + 1]
        ELSE IF /\ 0 < k /\ cur.Type = "Glue"
                /\ (brk.Ratio = 0 \/ (cur.Stretch = 0 /\ cur.Shrink = 0))
                /\ At(items, k - 1).Type = "Box"
        THEN \* merge glue with box when glue is the width of a space
             [next EXCEPT !.items = removeAt([items EXCEPT ![k].Width = @ + cur.Width,
                                                          ![k].Size = @ + cur.Size], k),
                          !.shift = shift + 1]
        ELSE [next EXCEPT !.k = k + 1]

\* the places, in the items as they were before the pass, of the items that
\* are left when the item at index k has gone
placesWithout(at, k) == Take(at, k) \o Drop(at, k + 1)

\* lines 650-657
\* (at and chosen are kept for the properties: for every item that is left its
\* place in the items before the pass, and the positions of the breakpoints
\* before the pass)
CoalesceStart ==
    /\ tt.pc = "coalesce"
    /\ LET c == dropIndent([tt EXCEPT !.i = 0, !.j = 0, !.shift = 0, !.k = 0])
       IN  tt' = [c EXCEPT !.pc = "coalescing",
                           !.at = IF Len(c.items) < Len(tt.items)
                                  THEN placesWithout(tt.at, 0) ELSE tt.at]
    /\ UNCHANGED <<rtVars, it, fn, sd, tl, sz>>

\* lines 658-712: one iteration; breaks[j] with j past the last breakpoint is
\* an index out of range
CoalesceItem ==
    /\ tt.pc = "coalescing"
    /\ tt.k < Len(tt.items)
    /\ tt' = IF tt.j >= Len(tt.breaks)
             THEN [tt EXCEPT !.pc = "panic"]
             ELSE LET c == coalesceItem(tt)
                  IN  [c EXCEPT !.at = IF Len(c.items) < Len(tt.items)
                                       THEN placesWithout(tt.at, tt.k) ELSE tt.at]
    /\ UNCHANGED <<rtVars, it, fn, sd, tl, sz>>

\* the loop ends
CoalesceEnd ==
    /\ tt.pc = "coalescing"
    /\ tt.k >= Len(tt.items)
    /\ tt' = [tt EXCEPT !.pc = "coalesced"]
    /\ UNCHANGED <<rtVars, it, fn, sd, tl, sz>>

\* a legal breakpoint: a glue that follows a box, or a penalty
IsLegalBreak(items, p) ==
    \/ At(items, p).Type = "Penalty"
    \/ p > 0 /\ At(items, p).Type = "Glue" /\ At(items, p - 1).Type = "Box"

----------------------------------------------------------------------------
(* ToText: from the rich text to the glyphs (text.go:483-603) *)

\* the largest number of runes of a rich text that is laid out
MaxTextRunes == 3

\* the runes of the texts that are laid out: 'a', SPACE, LINE FEED and SOFT
\* HYPHEN (two bytes); an object is written as the rune of its index in
\* rt.objects
TextRunes == {97, 32, 10, 173}
SoftHyphen == 173
HyphenMinus == 45

\* FontFace.heights in horizontal mode: top, ascent, descent and bottom of a
\* face, top and bottom being ascent and descent with the line gap added.
\* All lengths of the layout are even numbers, so that the halves that ToText
\* takes for a centred text are whole numbers
faceHeights(face) ==
    IF face = "A" THEN [top |-> 8, ascent |-> 6, descent |-> 2, bottom |-> 4]
    ELSE [top |-> 12, ascent |-> 8, descent |-> 4, bottom |-> 8]

\* face.Metrics().LineGap
lineGap(face) == faceHeights(face).bottom - faceHeights(face).descent

\* the advance of the glyph of a rune: a letter, a space, a hyphen; a line feed
\* and a soft hyphen have none
glyphAdvance(r) ==
    IF r = 97 \/ r = 1488 THEN 4 ELSE IF r = 32 \/ r = HyphenMinus THEN 2 ELSE 0

\* rt.objects[r]: every object is four wide and four high and sits on the baseline
objectOf(r) == [Width |-> 4, Height |-> 4, VAlign |-> "Baseline"]

\* HEBREW LETTER ALEF (two bytes), a letter that is written right to left
Alef == 1488

\* the bidirectional class of a rune: a strong left-to-right or right-to-left
\* letter, a paragraph separator, or a neutral
bidiClass(r) ==
    IF r = 97 THEN "L" ELSE IF r = Alef THEN "R" ELSE IF r = 10 THEN "B" ELSE "N"

\* the class of the nearest strong rune before, and after, rune k of the
\* paragraph; the paragraph is left-to-right, and so are its two ends
RECURSIVE strongBefore(_, _)
strongBefore(runes, k) ==
    IF k < 1 \/ bidiClass(runes[k]) = "B" THEN "L"
    ELSE IF bidiClass(runes[k]) # "N" THEN bidiClass(runes[k])
    ELSE strongBefore(runes, k - 1)

RECURSIVE strongAfter(_, _)
strongAfter(runes, k) ==
    IF k > Len(runes) \/ bidiClass(runes[k]) = "B" THEN "L"
    ELSE IF bidiClass(runes[k]) # "N" THEN bidiClass(runes[k])
    ELSE strongAfter(runes, k + 1)

\* canvasText.EmbeddingLevels: level 1 for a right-to-left letter and for the
\* neutrals between two of them, level 0 for every other rune
EmbeddingLevels(runes) ==
    [k \in 1..Len(runes) |->
        IF strongBefore(runes, k) = "R" /\ strongAfter(runes, k) = "R" THEN 1 ELSE 0]

\* FontFace.Direction: a face has no direction of its own unless one is set
faceDirection(face) == "DirectionInvalid"

\* FontFace.Script: a face has no script of its own unless one is set
faceScript(face) == "Invalid"

\* lines 497-510 and 516-529: the runs of logRunes[i:j], all of one face
appendRuns(acc, runes, levels, face) ==
    IF face = NilFace
    THEN [texts |-> Append(acc.texts, runes), scripts |-> Append(acc.scripts, "Invalid"),
          faces |-> Append(acc.faces, NilFace)]
    ELSE LET items == ScriptItemizer(runes, levels)
         IN  [texts |-> acc.texts \o [n \in 1..Len(items) |-> items[n].Text],
              scripts |-> acc.scripts \o [n \in 1..Len(items) |-> items[n].Script],
              faces |-> acc.faces \o [n \in 1..Len(items) |-> face]]

\* lines 494-514: the loop over logRunes from rune j on
RECURSIVE faceRunsFrom(_, _, _, _, _, _, _)
faceRunsFrom(ls, fs, logRunes, levels, j, c, acc) ==
    IF j >= Len(logRunes) THEN [i |-> c.i, curFace |-> c.curFace, acc |-> acc]
    ELSE LET nextFace == index(ls, j)
         IN  IF nextFace # c.curFace
             THEN faceRunsFrom(ls, fs, logRunes, levels, j + 1, [i |-> j, curFace |-> nextFace],
                               appendRuns(acc, SubSeq(logRunes, c.i + 1, j),
                                          SubSeq(levels, c.i + 1, j), At(fs, c.curFace)))
             ELSE faceRunsFrom(ls, fs, logRunes, levels, j + 1, c, acc)

\* lines 488-530: itemize string by font face and script
faceRuns(ls, fs, logRunes) ==
    LET levels == EmbeddingLevels(logRunes)
        r == faceRunsFrom(ls, fs, logRunes, levels, 0, [i |-> 0, curFace |-> 0],
                          [texts |-> <<>>, scripts |-> <<>>, faces |-> <<>>])
    IN  IF r.i < Len(logRunes)
        THEN appendRuns(r.acc, SubSeq(logRunes, r.i + 1, Len(logRunes)),
                        SubSeq(levels, r.i + 1, Len(logRunes)), At(fs, r.curFace))
        ELSE r.acc

\* lines 459-480
IsVerticalScript(script) ==
    script \in {"Bopomofo", "EgyptianHieroglyphs", "Hiragana", "Katakana", "Han", "Hangul",
                "MeroiticCursive", "MeroiticHieroglyphs", "Mongolian", "Ogham", "OldTurkic",
                "PhagsPa", "Yi"}
ScriptRotation(script) ==
    IF script \in {"Mongolian", "PhagsPa"} THEN "CW"
    ELSE IF script \in {"Ogham", "OldTurkic"} THEN "CCW"
    ELSE "NoRotation"

\* a slip: the text orientation is not looked at
scriptDirectionAnyOrient(mode, orient, script, direction) ==
    LET d1 == IF direction \in {"TopToBottom", "BottomToTop"}
              THEN (IF mode = "HorizontalTB" THEN "LeftToRight" ELSE "TopToBottom")
              ELSE IF mode # "HorizontalTB" THEN "TopToBottom" ELSE direction
    IN  IF mode # "HorizontalTB"
        THEN IF ~IsVerticalScript(script)
             THEN <<"LeftToRight", "CW">>
             ELSE IF ScriptRotation(script) # "NoRotation"
             THEN <<"LeftToRight", ScriptRotation(script)>>
             ELSE <<d1, "NoRotation">>
        ELSE <<d1, "NoRotation">>

scriptDirection(mode, orient, script, direction) ==
    LET d1 == IF direction \in {"TopToBottom", "BottomToTop"}
              THEN (IF mode = "HorizontalTB" THEN "LeftToRight" ELSE "TopToBottom")
              ELSE IF mode # "HorizontalTB" THEN "TopToBottom" ELSE direction
    IN  IF mode # "HorizontalTB"
        THEN IF ~IsVerticalScript(script) /\ orient = "Natural"
             THEN <<"LeftToRight", "CW">>
             ELSE IF ScriptRotation(script) # "NoRotation"
             THEN <<"LeftToRight", ScriptRotation(script)>>
             ELSE <<d1, "NoRotation">>
        ELSE <<d1, "NoRotation">>

\* the arguments of scriptDirection
WritingModes == {"HorizontalTB", "VerticalRL", "VerticalLR"}
TextOrientations == {"Natural", "Upright"}
Directions == {"DirectionInvalid", "LeftToRight", "RightToLeft", "TopToBottom", "BottomToTop"}
Scripts ==
    {"Latin", "Arabic", "Hebrew", "Common",
     "Bopomofo", "EgyptianHieroglyphs", "Hiragana", "Katakana", "Han", "Hangul",
     "MeroiticCursive", "MeroiticHieroglyphs", "Mongolian", "Ogham", "OldTurkic",
     "PhagsPa", "Yi"}

\* a call of scriptDirection
ScriptDirection ==
    /\ sd.pc = "scriptDirection"
    /\ LET out == scriptDirection(sd.mode, sd.orient, sd.script, sd.direction)
       IN  sd' = [sd EXCEPT !.pc = "done", !.outDirection = out[1], !.outRotation = out[2]]
    /\ UNCHANGED <<rtVars, it, tt, fn, tl, sz>>

\* scriptDirection with any arguments
InitDirection ==
    /\ RTIdle
    /\ ItIdle
    /\ TTIdle
    /\ FnIdle
    /\ TlIdle
    /\ SzIdle
    /\ \E mode \in WritingModes, orient \in TextOrientations,
          script \in Scripts, direction \in Directions :
          sd = [pc |-> "scriptDirection", mode |-> mode, orient |-> orient, script |-> script,
                direction |-> direction, outDirection |-> "DirectionInvalid",
                outRotation |-> "NoRotation"]

NextDirection == ScriptDirection

SpecDirection == InitDirection /\ [][NextDirection]_vars

\* reverse a sequence
Reverse(s) == [n \in 1..Len(s) |-> s[Len(s) + 1 - n]]

\* a glyph: the rune it stands for, its cluster (a byte offset into the text),
\* its glyph ID and its advance; id tells the shaped glyphs apart, it is the
\* place of the glyph in the shaped order (-1 for a glyph that was not shaped)
Glyph(id, r, cluster, gid, adv) ==
    [id |-> id, Text |-> r, Cluster |-> cluster, ID |-> gid, Advance |-> adv]

\* the direction the shaper resolves: the direction it is given, and the
\* direction of the script when it is given none
resolvedDirection(direction, script) ==
    IF direction # "DirectionInvalid" THEN direction
    ELSE IF script \in {"Hebrew", "Arabic"} THEN "RightToLeft" ELSE "LeftToRight"

\* the shaper: a glyph for every rune, its cluster the byte offset of the
\* rune in the run; in visual order, which for right-to-left is the reverse
Shape(run, direction) ==
    LET gs == [n \in 1..Len(run) |->
                 Glyph(0, run[n], ByteOffset(run, n - 1), run[n], glyphAdvance(run[n]))]
    IN  IF direction = "RightToLeft" THEN Reverse(gs) ELSE gs

\* lines 546-563: the glyphs of a run of objects, one for every rune
objectGlyphs(run, clusterOffset) ==
    [n \in 1..Len(run) |->
        Glyph(0, 0, clusterOffset + ByteOffset(run, n - 1), run[n], objectOf(run[n]).Width)]

\* lines 538-603: shape run k and the runs after it
RECURSIVE shapeFrom(_, _, _, _, _)
shapeFrom(runs, mode, orient, k, c) ==
    IF k >= Len(runs.texts) THEN c
    ELSE LET run  == At(runs.texts, k)
             face == At(runs.faces, k)
             sdir == scriptDirection(mode, orient, At(runs.scripts, k), faceDirection(face))
             dir  == IF face = NilFace THEN "DirectionInvalid"
                     ELSE resolvedDirection(sdir[1], At(runs.scripts, k))
             rot  == IF face = NilFace THEN "NoRotation" ELSE sdir[2]
             shaped == IF face = NilFace THEN objectGlyphs(run, c.clusterOffset)
                       ELSE [n \in 1..Len(run) |->
                               [Shape(run, dir)[n] EXCEPT !.Cluster = @ + c.clusterOffset]]
             ordered == IF dir \in {"RightToLeft", "BottomToTop"} THEN Reverse(shaped)
                        ELSE shaped
         IN  shapeFrom(runs, mode, orient, k + 1,
                       [glyphIndices |-> Append(c.glyphIndices, Len(c.glyphs)),
                        glyphs |-> c.glyphs \o ordered,
                        clusterOffset |-> c.clusterOffset + ByteLen(run),
                        directions |-> Append(c.directions, dir),
                        rotations |-> Append(c.rotations, rot)])

\* number the glyphs in the order they were shaped in
numbered(glyphs) == [n \in 1..Len(glyphs) |-> [glyphs[n] EXCEPT !.id = n - 1]]

----------------------------------------------------------------------------
(* ToText: the items and the breakpoints (text.go:605-647) *)

\* IsParagraphSeparator (text package)
IsParagraphSeparator(r) ==
    (10 <= r /\ r <= 13) \/ r = 133 \/ r = 8232 \/ r = 8233

\* the item of a glyph: a forced break for a paragraph separator, a glue for a
\* space, a flagged penalty of the width of a hyphen for a soft hyphen, and a
\* box for any other glyph; each covers the one glyph
glyphItem(g, align) ==
    IF IsParagraphSeparator(g.Text) THEN Penalty(0, -Infinity, 1)
    ELSE IF g.Text = 32
    THEN Glue(g.Advance, IF align = "Justified" THEN 2 ELSE 1, 1, 1)
    ELSE IF g.Text = SoftHyphen THEN Penalty(glyphAdvance(HyphenMinus), 50, 1)
    ELSE Box(g.Advance, 1)

\* canvasText.GlyphsToItems: the indent box, the items of the glyphs, and the
\* glue and the forced break that end the paragraph; these three cover no glyph
GlyphsToItems(glyphs, indent, align) ==
    IF Len(glyphs) = 0 THEN <<>>
    ELSE <<Box(indent, 0)>> \o [n \in 1..Len(glyphs) |-> glyphItem(glyphs[n], align)]
         \o <<Glue(0, PosInf, 0, 0), Penalty(0, -Infinity, 0)>>

\* a slip: the width of the line is not cleared at a break
RECURSIVE forcedBreaksRunningWidth(_, _, _, _)
forcedBreaksRunningWidth(items, i, lineWidth, breaks) ==
    IF i >= Len(items) THEN breaks
    ELSE LET item == At(items, i)
         IN  IF item.Type # "Penalty"
             THEN forcedBreaksRunningWidth(items, i + 1, lineWidth + item.Width, breaks)
             ELSE IF item.Penalty <= -Infinity
             THEN forcedBreaksRunningWidth(items, i + 1, lineWidth,
                     Append(breaks, [Position |-> i, Ratio |-> 0, Width |-> lineWidth]))
             ELSE forcedBreaksRunningWidth(items, i + 1, lineWidth, breaks)

\* lines 638-646: without a width, the breaks are the forced breaks
RECURSIVE forcedBreaksFrom(_, _, _, _)
forcedBreaksFrom(items, i, lineWidth, breaks) ==
    IF i >= Len(items) THEN breaks
    ELSE LET item == At(items, i)
         IN  IF item.Type # "Penalty"
             THEN forcedBreaksFrom(items, i + 1, lineWidth + item.Width, breaks)
             ELSE IF item.Penalty <= -Infinity
             THEN forcedBreaksFrom(items, i + 1, 0,
                     Append(breaks, [Position |-> i, Ratio |-> 0, Width |-> lineWidth]))
             ELSE forcedBreaksFrom(items, i + 1, lineWidth, breaks)

\* the natural width of the items from index a up to, not including, index b
RECURSIVE naturalWidth(_, _, _)
naturalWidth(items, a, b) ==
    IF a >= b THEN 0
    ELSE (IF At(items, a).Type = "Penalty" THEN 0 ELSE At(items, a).Width)
         + naturalWidth(items, a + 1, b)

\* the breakpoints at the positions ps, in order, after a break at prev
RECURSIVE lineBreaksAt(_, _, _, _)
lineBreaksAt(items, ps, prev, ratio) ==
    IF ps = {} THEN <<>>
    ELSE LET p == CHOOSE x \in ps : \A y \in ps : x <= y
         IN  <<[Position |-> p, Ratio |-> ratio, Width |-> naturalWidth(items, prev + 1, p)]>>
             \o lineBreaksAt(items, ps \ {p}, p, ratio)

\* the ratios of the lines that canvasText.Linebreak returns
Ratios == {0, 1}

\* canvasText.Linebreak: any choice of legal breakpoints that takes every
\* forced break, and so ends with the last item. The glue that ends the
\* paragraph is no break: the line after it would be empty and without stretch
Linebreaks(items) ==
    LET legal  == {p \in 0..(Len(items) - 1) :
                      /\ IsLegalBreak(items, p)
                      /\ ~(At(items, p).Type = "Glue" /\ At(items, p).Size = 0)}
        forced == {p \in legal : At(items, p).Type = "Penalty"
                                    /\ At(items, p).Penalty <= -Infinity}
    IN  {lineBreaksAt(items, ps, -1, ratio) :
            ps \in {x \in SUBSET legal : forced \subseteq x}, ratio \in Ratios}

\* the second result of canvasText.Linebreak: false, no feasible set of
\* breaks, is possible when the breaks returned are the forced breaks alone
LinebreakOk(items, breaks) ==
    IF \A n \in 1..Len(breaks) : At(items, breaks[n].Position).Type = "Penalty"
                                     /\ At(items, breaks[n].Position).Penalty <= -Infinity
    THEN BOOLEAN ELSE {TRUE}

\* the box widths and heights ToText is called with; 0 is no limit
Widths == {0, 8}
Heights == {0, 6, 12, 18}

\* lines 483-603: the text, its runs and their glyphs
ToTextShape ==
    /\ tt.pc = "toText"
    /\ LET runs   == faceRuns(locs, faces, text)
           shaped == shapeFrom(runs, tt.mode, tt.orient, 0,
                               [glyphIndices |-> <<>>, glyphs |-> <<>>, clusterOffset |-> 0,
                                directions |-> <<>>, rotations |-> <<>>])
       IN  tt' = [pc |-> "shaped", log |-> text, texts |-> runs.texts, faces |-> runs.faces,
                  glyphIndices |-> shaped.glyphIndices, glyphs |-> numbered(shaped.glyphs),
                  directions |-> shaped.directions, rotations |-> shaped.rotations] @@ tt
    /\ UNCHANGED <<rtVars, it, fn, sd, tl, sz>>

\* the record of ToText once the items and the breaks are there
withBreaks(t, width, items, breaks, overflows) ==
    [pc |-> "coalesce", width |-> width, items |-> items, breaks |-> breaks, before |-> items,
     overflows |-> overflows, i |-> 0, j |-> 0, k |-> 0, shift |-> 0,
     at |-> [m \in 1..Len(items) |-> m - 1],
     chosen |-> [m \in 1..Len(breaks) |-> breaks[m].Position]] @@ t

\* lines 605-647: the items and their breakpoints, in horizontal mode; width is
\* first read here
ToTextBreak ==
    /\ tt.pc = "shaped"
    /\ LET align == IF tt.halign = "Justify" THEN "Justified" ELSE "Left"
           items == GlyphsToItems(tt.glyphs, tt.indent, align)
       IN  \E width \in Widths :
             IF width # 0
             THEN \E breaks \in Linebreaks(items) : \E ok \in LinebreakOk(items, breaks) :
                     tt' = [linebreak |-> TRUE] @@ withBreaks(tt, width, items, breaks, ~ok)
             ELSE IF Len(items) = 0
             THEN tt' = [linebreak |-> FALSE]
                        @@ withBreaks(tt, width, items,
                                      <<[Position |-> 0, Ratio |-> 0, Width |-> 0]>>, FALSE)
             ELSE tt' = [linebreak |-> FALSE]
                        @@ withBreaks(tt, width, items, forcedBreaksFrom(items, 0, 0, <<>>),
                                      FALSE)
    /\ UNCHANGED <<rtVars, it, fn, sd, tl, sz>>

----------------------------------------------------------------------------
(* ToText: building up the lines (text.go:714-940) *)

Max(a, b) == IF a >= b THEN a ELSE b

\* log[ac:bc], the bytes from offset ac up to offset bc, as runes
byteSlice(log, ac, bc) ==
    SubSeq(log, RuneCountPrefix(log, ac) + 1, RuneCountPrefix(log, bc))

\* the runes of glyphs[a:b]
RECURSIVE glyphText(_, _, _)
glyphText(glyphs, a, b) ==
    IF a >= b THEN <<>> ELSE <<At(glyphs, a).Text>> \o glyphText(glyphs, a + 1, b)

\* face.textWidth(glyphs[a:b]), and the same sum for objects
RECURSIVE textWidth(_, _, _)
textWidth(glyphs, a, b) ==
    IF a >= b THEN 0 ELSE At(glyphs, a).Advance + textWidth(glyphs, a + 1, b)

\* TextSpanObject.Heights: ascent and descent of an object
objectHeights(obj, face) ==
    CASE obj.VAlign = "FontTop" ->
            <<faceHeights(face).ascent, -(faceHeights(face).ascent - obj.Height)>>
      [] obj.VAlign = "FontMiddle" ->
            <<(faceHeights(face).ascent - faceHeights(face).descent + obj.Height) \div 2,
              -((faceHeights(face).ascent - faceHeights(face).descent - obj.Height) \div 2)>>
      [] obj.VAlign = "FontBottom" ->
            <<-faceHeights(face).descent + obj.Height, faceHeights(face).descent>>
      [] OTHER -> <<obj.Height, 0>>

\* line.Heights in horizontal mode (text.go:134-155), spans from index n on
RECURSIVE lineHeightsFrom(_, _, _)
lineHeightsFrom(spans, n, h) ==
    IF n >= Len(spans) THEN h
    ELSE LET span == At(spans, n)
             f    == faceHeights(span.Face)
             o    == objectHeights(objectOf(At(span.ids, 0)), span.Face)
             gap  == lineGap(span.Face)
         IN  lineHeightsFrom(spans, n + 1,
                IF Len(span.ids) = 0
                THEN [top |-> Max(h.top, f.top), ascent |-> Max(h.ascent, f.ascent),
                      descent |-> Max(h.descent, f.descent), bottom |-> Max(h.bottom, f.bottom)]
                ELSE [top |-> Max(h.top, o[1] + gap), ascent |-> Max(h.ascent, o[1]),
                      descent |-> Max(h.descent, o[2]), bottom |-> Max(h.bottom, o[2] + gap)])

lineHeights(line) ==
    lineHeightsFrom(line.spans, 0, [top |-> 0, ascent |-> 0, descent |-> 0, bottom |-> 0])

\* a slip: a line that is aligned to the right starts where a centred line starts
lineStartHalved(halign, width, brk) ==
    IF halign \in {"Right", "Center", "Middle"} THEN (width - brk.Width) \div 2
    ELSE 0

\* lines 730-734 and 793-798: where a line starts
lineStart(halign, width, brk) ==
    IF halign = "Right" THEN width - brk.Width
    ELSE IF halign \in {"Center", "Middle"} THEN (width - brk.Width) \div 2
    ELSE 0

IsReversed(direction) == direction \in {"RightToLeft", "BottomToTop"}

\* a slip: the glyphs are left as they are
reverseRangeSkipped(glyphs, a, b) == glyphs

\* glyphs with glyphs[a:b] reversed in place (lines 841-843)
reverseRange(glyphs, a, b) ==
    [n \in 1..Len(glyphs) |-> IF a < n /\ n <= b THEN glyphs[a + b + 1 - n] ELSE glyphs[n]]

\* lines 858-875: the new last span of a reversed run moves in front of the
\* reversed spans before it
RECURSIVE firstReversed(_, _)
firstReversed(spans, first) ==
    IF 0 < first /\ IsReversed(At(spans, first - 1).Direction)
    THEN firstReversed(spans, first - 1) ELSE first

reorderSpans(spans, xdx, w) ==
    LET last  == Len(spans) - 1
        first == firstReversed(spans, last)
        space == xdx - At(spans, first).X - At(spans, first).Width
    IN  IF first < last
        THEN [n \in 1..Len(spans) |->
                IF n = last + 1 THEN [spans[n] EXCEPT !.X = spans[last].X]
                ELSE IF first < n THEN [spans[n] EXCEPT !.X = @ + w + space]
                ELSE spans[n]]
        ELSE spans

\* the glyphs of a span: the slice glyphs[a:a+n] of the glyphs of the text,
\* which the span shares with it
spanGlyphs(glyphs, span) == SubSeq(glyphs, span.a + 1, span.a + span.n)

\* lines 805-881: the spans of the box item at glyph i, from boundary b on; c
\* holds the spans of the line, the glyphs, the fonts, and a, k and dx
\* (X0 is kept for the properties: the X that the span is created with)
RECURSIVE boxSpans(_, _, _, _, _)
boxSpans(t, item, x, b, c) ==
    IF b > t.i + item.Size \/ c.panic THEN c
    ELSE LET nextK == index(t.glyphIndices, b)
         IN  IF nextK # c.k \/ b = t.i + item.Size
             THEN LET face0 == At(t.faces, c.k)
                      ac    == At(c.glyphs, c.a).Cluster
                      bc    == At(c.glyphs, b).Cluster
                      w     == textWidth(c.glyphs, c.a, b)
                      face  == IF face0 # NilFace THEN face0
                               ELSE IF 0 < Len(c.spans) THEN Last(c.spans).Face
                               ELSE defaultFace
                      dir   == At(t.directions, c.k)
                      gs    == IF IsReversed(dir) THEN reverseRange(c.glyphs, c.a, b)
                               ELSE c.glyphs
                      span  == [X |-> x + c.dx, X0 |-> x + c.dx, Width |-> w, Face |-> face,
                                Text |-> byteSlice(t.log, ac, bc),
                                ids |-> IF face0 = NilFace
                                        THEN [n \in 1..(b - c.a) |-> At(c.glyphs, c.a + n - 1).ID]
                                        ELSE <<>>,
                                a |-> c.a, n |-> b - c.a, Direction |-> dir,
                                Rotation |-> At(t.rotations, c.k)]
                      spans == IF IsReversed(dir)
                               THEN reorderSpans(Append(c.spans, span), x + c.dx, w)
                               ELSE Append(c.spans, span)
                  IN  IF ac > bc THEN [c EXCEPT !.panic = TRUE]
                      ELSE boxSpans(t, item, x, b + 1,
                              [spans |-> spans, glyphs |-> gs,
                               fonts |-> IF face0 # NilFace THEN c.fonts \cup {face0}
                                         ELSE c.fonts,
                               a |-> b, k |-> nextK, dx |-> c.dx + w, panic |-> FALSE])
             ELSE boxSpans(t, item, x, b + 1, c)

\* lines 884-892: the width of a glue on a line of the given ratio
glueWidth(item, ratio) ==
    IF 0 <= ratio
    THEN (IF item.Stretch < PosInf THEN item.Width + ratio * item.Stretch ELSE item.Width)
    ELSE (IF item.Shrink < PosInf THEN item.Width + ratio * item.Shrink ELSE item.Width)

\* a slip: the text of a glue or a break is added to no span
addTextDropped(spans, runes) == spans

\* the Text, of glyph.Text, that an item adds to the last span of the line
addText(spans, runes) ==
    IF 0 < Len(spans) THEN [spans EXCEPT ![Len(spans)].Text = @ \o runes] ELSE spans

\* the glyph that is appended to make indexing easier (line 725), and the
\* hyphen of a hyphenated line (lines 746-753)
sentinelGlyph(log) == Glyph(-2, 0, ByteLen(log), 0, 0)
hyphenGlyph == Glyph(-1, HyphenMinus, 0, HyphenMinus, glyphAdvance(HyphenMinus))

\* lines 714-734; height is first read in the loop that follows. breaks[j] is
\* read, for its width, when the text is not aligned to the left
\* (lost and cut are kept for the properties: the shaped glyphs that the
\* appended hyphens overwrote, and the index of the line that did not fit)
AssembleStart ==
    /\ tt.pc = "coalesced"
    /\ \E height \in Heights :
          tt' = IF Len(tt.breaks) = 0 /\ tt.halign \in {"Right", "Center", "Middle"}
                THEN [tt EXCEPT !.pc = "panic"]
                ELSE [pc |-> "assembling", height |-> height,
                      lines |-> <<[y |-> 0, spans |-> <<>>]>>, fonts |-> {},
                      text |-> tt.log, Overflows |-> tt.overflows,
                      glyphs |-> Append(tt.glyphs, sentinelGlyph(tt.log)),
                      i |-> 0, j |-> 0, y |-> 0, position |-> 0,
                      x |-> IF tt.halign \in {"Right", "Center", "Middle"}
                            THEN lineStart(tt.halign, tt.width, At(tt.breaks, 0)) ELSE 0,
                      lost |-> {}, cut |-> -1] @@ tt
    /\ UNCHANGED <<rtVars, it, fn, sd, tl, sz>>

\* a slip: the hyphen is written over the last glyph of the span
hyphenSlotInside(span) == span.a + span.n - 1

\* line 754: append(span.Glyphs, glyph) writes at index len(span.Glyphs) of the
\* span, which is index a+n of the glyphs of the text
hyphenSlot(span) == span.a + span.n

\* lines 737-758: the break item gives its text to the last span of the line,
\* and a soft hyphen its hyphen; append writes the hyphen into the glyphs of
\* the text, right after the glyphs of the span. lost is the set of the shaped
\* glyphs that were overwritten
closeLine(t, item) ==
    LET spans == At(t.lines, t.j).spans
        texted == addText(spans, glyphText(t.glyphs, t.i, t.i + item.Size))
        last   == Last(texted)
        slot   == hyphenSlot(last)
    IN  IF Len(spans) = 0 THEN t
        ELSE IF item.Type = "Penalty" /\ item.Size = 1 /\ At(t.glyphs, t.i).Text = SoftHyphen
        THEN [t EXCEPT !.lines[t.j + 1].spans =
                           [texted EXCEPT ![Len(texted)] =
                               [last EXCEPT !.n = @ + 1,
                                            !.Width = @ + hyphenGlyph.Advance,
                                            !.Text = Append(@, HyphenMinus)]],
                       !.glyphs[slot + 1] = hyphenGlyph,
                       !.lost = @ \cup {At(t.glyphs, slot).id}]
        ELSE [t EXCEPT !.lines[t.j + 1].spans = texted]

\* a slip: the ascent of the first line is stretched as well
stretchedAscentOfEveryLine(j, ascent, lineSpacing) == ascent * lineSpacing

\* lines 765-768: the ascent of every line but the first is stretched
stretchedAscent(j, ascent, lineSpacing) == IF 0 < j THEN ascent * lineSpacing ELSE ascent

\* lines 736-798: the item at position is the break of line j; t is the
\* record after closeLine
breakItem(t, item) ==
    LET spans  == At(t.lines, t.j).spans
        h      == IF Len(spans) = 0
                  THEN faceHeights(At(t.faces, index(t.glyphIndices, t.i)))
                  ELSE lineHeights(At(t.lines, t.j))
        lineSpacing == 1 + t.lineStretch
        ascent == stretchedAscent(t.j, h.ascent, lineSpacing)
        bottom == h.bottom * lineSpacing
        j1     == IF t.j + 1 < Len(t.breaks) THEN t.j + 1 ELSE t.j
    IN  IF t.height # 0 /\ t.height < t.y + ascent + h.descent
        THEN \* doesn't fit
             [t EXCEPT !.pc = "assembled", !.cut = t.j,
                       !.lines = Front(t.lines),
                       !.text = IF 0 < t.j
                                THEN byteSlice(t.log, 0, At(t.glyphs, t.i).Cluster)
                                ELSE <<>>,
                       !.y = IF 0 < t.j THEN t.y ELSE 0]
        ELSE IF t.position = Len(t.items) - 1
        THEN [t EXCEPT !.pc = "assembled",
                       !.lines[t.j + 1].y = t.y + ascent,
                       !.y = t.y + ascent + bottom]
        ELSE [t EXCEPT !.lines = Append([t.lines EXCEPT ![t.j + 1].y = t.y + ascent],
                                        [y |-> 0, spans |-> <<>>]),
                       !.y = t.y + ascent + bottom,
                       !.j = j1,
                       !.x = lineStart(t.halign, t.width, At(t.breaks, j1)),
                       !.i = t.i + item.Size,
                       !.position = t.position + 1]

\* lines 799-882
boxItem(t, item) ==
    LET c == boxSpans(t, item, t.x, t.i + 1,
                      [spans |-> At(t.lines, t.j).spans, glyphs |-> t.glyphs,
                       fonts |-> t.fonts, a |-> t.i, k |-> index(t.glyphIndices, t.i),
                       dx |-> 0, panic |-> FALSE])
    IN  IF c.panic THEN [t EXCEPT !.pc = "panic"]
        ELSE [t EXCEPT !.lines[t.j + 1].spans = c.spans, !.glyphs = c.glyphs,
                       !.fonts = c.fonts, !.x = t.x + item.Width,
                       !.i = t.i + item.Size, !.position = t.position + 1]

\* lines 883-900
glueItem(t, item) ==
    [t EXCEPT !.x = t.x + glueWidth(item, At(t.breaks, t.j).Ratio),
              !.lines[t.j + 1].spans = addText(@, glyphText(t.glyphs, t.i, t.i + item.Size)),
              !.i = t.i + item.Size, !.position = t.position + 1]

\* lines 735-902: one iteration of the loop over the items. The face of an
\* empty line is faces[glyphIndices.index(i)]; heights of a nil face is a nil
\* dereference
AssembleItem ==
    /\ tt.pc = "assembling"
    /\ tt.position < Len(tt.items)
    /\ LET item == At(tt.items, tt.position)
       IN  tt' = IF tt.position = At(tt.breaks, tt.j).Position
                 THEN IF /\ Len(At(tt.lines, tt.j).spans) = 0
                         /\ At(tt.faces, index(tt.glyphIndices, tt.i)) = NilFace
                      THEN [tt EXCEPT !.pc = "panic"]
                      ELSE breakItem(closeLine(tt, item), item)
                 ELSE IF item.Type = "Box" THEN boxItem(tt, item)
                 ELSE IF item.Type = "Glue" THEN glueItem(tt, item)
                 ELSE [tt EXCEPT !.i = tt.i + item.Size, !.position = tt.position + 1]
    /\ UNCHANGED <<rtVars, it, fn, sd, tl, sz>>

\* the loop has gone through all the items
AssembleLoopEnd ==
    /\ tt.pc = "assembling"
    /\ tt.position >= Len(tt.items)
    /\ tt' = [tt EXCEPT !.pc = "assembled"]
    /\ UNCHANGED <<rtVars, it, fn, sd, tl, sz>>

\* lines 904-908: remove line gap of last line
withoutLineGap(t) ==
    IF 0 < t.j
    THEN LET h == lineHeights(At(t.lines, t.j - 1))
         IN  t.y - h.bottom * (1 + t.lineStretch) + h.descent
    ELSE t.y

\* lines 917-924: the shift of the lines of a text that is aligned to the
\* bottom or centred; y is the height of the lines
verticalShift(valign, height, y) ==
    IF valign \in {"Center", "Middle"} THEN (height - y) \div 2
    ELSE IF valign = "Bottom" THEN height - y
    ELSE 0

\* lines 904-940 in horizontal mode, for a text that is aligned to the top or
\* the bottom or is centred: remove line gap of last line, shift the lines,
\* and return; dy is kept for the properties
AssembleEnd ==
    /\ tt.pc = "assembled"
    /\ LET y  == withoutLineGap(tt)
           dy == verticalShift(tt.valign, tt.height, y)
       IN  tt' = [dy |-> dy]
                 @@ [tt EXCEPT !.pc = "done", !.y = y,
                               !.lines = [n \in 1..Len(tt.lines) |->
                                             [tt.lines[n] EXCEPT !.y = @ + dy]]]
    /\ UNCHANGED <<rtVars, it, fn, sd, tl, sz>>

\* the rich texts that are laid out: up to MaxTextRunes runes, at most
\* MaxObjects of them objects, the rune of an object being its index in
\* rt.objects; the runes before rune number s are of face A, the others of
\* face B, and an object has no face
IsObjectRune(r) == r \in 0..(MaxObjects - 1)

objectsBefore(runes, n) == Cardinality({m \in 1..(n - 1) : IsObjectRune(runes[m])})

faceOfRune(runes, s, n) ==
    IF IsObjectRune(runes[n]) THEN NilFace ELSE IF n <= s THEN "A" ELSE "B"

\* the RichText after NewRichText(A) and, for each of the first n runes, the
\* call that writes it: AddCanvas for an object, SetFace and WriteString for
\* a rune of text
RECURSIVE builtUpTo(_, _, _)
builtUpTo(runes, s, n) ==
    IF n = 0 THEN [text |-> <<>>, locs |-> <<0>>, faces |-> <<"A">>]
    ELSE LET st == builtUpTo(runes, s, n - 1)
         IN  IF IsObjectRune(runes[n]) THEN addCanvas(st, runes[n])
             ELSE LET faced == setFace(st, faceOfRune(runes, s, n))
                  IN  [faced EXCEPT !.text = Append(faced.text, runes[n])]

\* rt.locs and rt.faces of the RichText that holds the runes
faceList(runes, s) ==
    [locs |-> builtUpTo(runes, s, Len(runes)).locs,
     faces |-> builtUpTo(runes, s, Len(runes)).faces]

\* the rich text that ToText is called on: up to maxRunes runes of the set
\* textRunes, of one face or of up to two
richTextFrom(maxRunes, textRunes, oneFace) ==
    /\ defaultFace = "A"
    /\ panicked = FALSE
    /\ \E n \in 0..maxRunes : \E runes \in [1..n -> textRunes] :
          \E s \in {m \in 0..n : (m = n \/ m >= 1) /\ (oneFace => m = n)} :
             /\ \A m \in 1..n : IsObjectRune(runes[m]) => runes[m] = objectsBefore(runes, m)
             /\ text = runes
             /\ objects = objectsBefore(runes, n + 1)
             /\ locs = faceList(runes, s).locs
             /\ faces = faceList(runes, s).faces

richTextOf(oneFace) == richTextFrom(MaxTextRunes, TextRunes \cup 0..(MaxObjects - 1), oneFace)

richTextToLayOut == richTextOf(FALSE)

InitToText ==
    /\ ItIdle
    /\ FnIdle
    /\ SdIdle
    /\ TlIdle
    /\ SzIdle
    /\ richTextToLayOut
    /\ tt = [pc |-> "toText", mode |-> "HorizontalTB", orient |-> "Natural",
             halign |-> "Left", valign |-> "Top", indent |-> 0, lineStretch |-> 0]

NextToText ==
    \/ ToTextShape
    \/ ToTextBreak
    \/ CoalesceStart
    \/ CoalesceItem
    \/ CoalesceEnd
    \/ AssembleStart
    \/ AssembleItem
    \/ AssembleLoopEnd
    \/ AssembleEnd

SpecToText == InitToText /\ [][NextToText]_vars

\* ToText with a line stretch: the lines are one or two line heights apart
LineStretches == {0, 1}

InitStretch ==
    /\ ItIdle
    /\ FnIdle
    /\ SdIdle
    /\ TlIdle
    /\ SzIdle
    /\ richTextToLayOut
    /\ \E lineStretch \in LineStretches :
          tt = [pc |-> "toText", mode |-> "HorizontalTB", orient |-> "Natural",
                halign |-> "Left", valign |-> "Top", indent |-> 0,
                lineStretch |-> lineStretch]

SpecStretch == InitStretch /\ [][NextToText]_vars

\* ToText on texts of letters that are written left to right and right to
\* left, with spaces between them
MaxBidiRunes == 4
BidiRunes == {97, Alef, 32}

InitBidi ==
    /\ ItIdle
    /\ FnIdle
    /\ SdIdle
    /\ TlIdle
    /\ SzIdle
    /\ richTextFrom(MaxBidiRunes, BidiRunes, FALSE)
    /\ tt = [pc |-> "toText", mode |-> "HorizontalTB", orient |-> "Natural",
             halign |-> "Left", valign |-> "Top", indent |-> 0, lineStretch |-> 0]

SpecBidi == InitBidi /\ [][NextToText]_vars

\* the same with soft hyphens
InitBidiHyphen ==
    /\ ItIdle
    /\ FnIdle
    /\ SdIdle
    /\ TlIdle
    /\ SzIdle
    /\ richTextFrom(MaxBidiRunes, BidiRunes \cup {SoftHyphen}, FALSE)
    /\ tt = [pc |-> "toText", mode |-> "HorizontalTB", orient |-> "Natural",
             halign |-> "Left", valign |-> "Top", indent |-> 0, lineStretch |-> 0]

SpecBidiHyphen == InitBidiHyphen /\ [][NextToText]_vars

\* ToText with every horizontal alignment, on a text of one face
HAligns == {"Left", "Right", "Center", "Middle", "Justify"}

InitHAlign ==
    /\ ItIdle
    /\ FnIdle
    /\ SdIdle
    /\ TlIdle
    /\ SzIdle
    /\ richTextOf(TRUE)
    /\ \E halign \in HAligns :
          tt = [pc |-> "toText", mode |-> "HorizontalTB", orient |-> "Natural",
                halign |-> halign, valign |-> "Top", indent |-> 0, lineStretch |-> 0]

SpecHAlign == InitHAlign /\ [][NextToText]_vars

\* ToText with the vertical alignments that shift every line by one amount
VAligns == {"Top", "Bottom", "Center", "Middle"}

InitVAlign ==
    /\ ItIdle
    /\ FnIdle
    /\ SdIdle
    /\ TlIdle
    /\ SzIdle
    /\ richTextToLayOut
    /\ \E valign \in VAligns :
          tt = [pc |-> "toText", mode |-> "HorizontalTB", orient |-> "Natural",
                halign |-> "Left", valign |-> valign, indent |-> 0, lineStretch |-> 0]

SpecVAlign == InitVAlign /\ [][NextToText]_vars

\* ToText with and without an indent of the first line, the text aligned to
\* the left or justified, on a text of one face
Indents == {0, 2}

InitIndent ==
    /\ ItIdle
    /\ FnIdle
    /\ SdIdle
    /\ TlIdle
    /\ SzIdle
    /\ richTextOf(TRUE)
    /\ \E indent \in Indents, halign \in {"Left", "Justify"} :
          tt = [pc |-> "toText", mode |-> "HorizontalTB", orient |-> "Natural",
                halign |-> halign, valign |-> "Top", indent |-> indent, lineStretch |-> 0]

SpecIndent == InitIndent /\ [][NextToText]_vars

----------------------------------------------------------------------------
(* NewTextLine (text.go:241-287) *)

\* the largest number of runes of the string of a text line
MaxLineRunes == 3

\* the runes of the strings: 'a', HEBREW LETTER ALEF (two bytes), LINE FEED
\* and CARRIAGE RETURN
LineRunes == {97, Alef, 10, 13}

\* itemizeString (lines 235-239)
itemizeString(log) == ScriptItemizer(log, EmbeddingLevels(log))

\* lines 258-270: a span for item k and for every item after it, each span
\* put at the width of the line so far; the shaper is given the direction and
\* the script of the face, not the script of the item
RECURSIVE lineSpans(_, _, _, _)
lineSpans(face, items, k, c) ==
    IF k >= Len(items) THEN c
    ELSE LET item      == At(items, k)
             direction == resolvedDirection(faceDirection(face), faceScript(face))
             glyphs    == Shape(item.Text, direction)
             width     == textWidth(glyphs, 0, Len(glyphs))
         IN  lineSpans(face, items, k + 1,
                       [lineWidth |-> c.lineWidth + width,
                        spans |-> Append(c.spans,
                                     [X |-> c.lineWidth, Width |-> width, Face |-> face,
                                      Text |-> item.Text, Glyphs |-> glyphs,
                                      Direction |-> direction])])

\* lines 271-279: every span of the line is given the position of the
\* alignment (lineWidth is an even number)
alignSpans(halign, lineWidth, spans) ==
    IF halign = "Center" \/ halign = "Middle"
    THEN [k \in 1..Len(spans) |-> [spans[k] EXCEPT !.X = -(lineWidth \div 2)]]
    ELSE IF halign = "Right"
    THEN [k \in 1..Len(spans) |-> [spans[k] EXCEPT !.X = -lineWidth]]
    ELSE spans

\* lines 254-280: the line of s[i:j] at y
textLine(face, s, halign, i, j, y) ==
    LET made == lineSpans(face, itemizeString(byteSlice(s, i, j)), 0,
                          [lineWidth |-> 0, spans |-> <<>>])
    IN  [y |-> y, spans |-> alignSpans(halign, made.lineWidth, made.spans)]

\* lines 246-285: the loop over the runes of s + "\n", from rune n on; j is
\* the byte offset of the rune
RECURSIVE newTextLineFrom(_, _, _, _, _)
newTextLineFrom(face, s, halign, n, c) ==
    IF n > Len(s) THEN c.lines
    ELSE LET r == At(Append(s, 10), n)
             j == ByteOffset(s, n)
         IN  IF ~IsParagraphSeparator(r)
             THEN newTextLineFrom(face, s, halign, n + 1, c)
             ELSE IF c.skipNext
             THEN newTextLineFrom(face, s, halign, n + 1,
                                  [c EXCEPT !.skipNext = FALSE, !.i = @ + 1])
             ELSE newTextLineFrom(face, s, halign, n + 1,
                     [i |-> j + RuneLen(r),
                      y |-> c.y + faceHeights(face).ascent + faceHeights(face).descent
                                + lineGap(face),
                      skipNext |-> r = 13 /\ j + 1 < ByteLen(s) /\ At(s, n + 1) = 10,
                      lines |-> IF c.i < j
                                THEN Append(c.lines, textLine(face, s, halign, c.i, j, c.y))
                                ELSE c.lines])

\* NewTextLine
NewTextLine(face, s, halign) ==
    [text |-> s, fonts |-> {face},
     lines |-> newTextLineFrom(face, s, halign, 0,
                               [i |-> 0, y |-> 0, skipNext |-> FALSE, lines |-> <<>>])]

\* a call of NewTextLine
NewTextLineCall ==
    /\ tl.pc = "newTextLine"
    /\ tl' = [tl EXCEPT !.pc = "done", !.t = NewTextLine(tl.face, tl.s, tl.halign)]
    /\ UNCHANGED <<rtVars, it, tt, fn, sd, sz>>

\* NewTextLine with any face, string and alignment
InitTextLine ==
    /\ RTIdle
    /\ ItIdle
    /\ TTIdle
    /\ FnIdle
    /\ SdIdle
    /\ SzIdle
    /\ \E face \in Faces, halign \in HAligns :
          \E n \in 0..MaxLineRunes : \E s \in [1..n -> LineRunes] :
             tl = [pc |-> "newTextLine", face |-> face, s |-> s, halign |-> halign,
                   t |-> [text |-> <<>>, fonts |-> {}, lines |-> <<>>]]

NextTextLine == NewTextLineCall

SpecTextLine == InitTextLine /\ [][NextTextLine]_vars

----------------------------------------------------------------------------
(* Text.Fonts (text.go:1009-1023) *)

\* the fonts that exist, and their names; a name is a number, and the order
\* of the numbers is the order of the names as strings
MaxFonts == 3
MaxFontNames == 2
FontIds == 1..MaxFonts
FontNames == 1..MaxFontNames

\* sort.Strings
RECURSIVE insertSorted(_, _)
insertSorted(sorted, name) ==
    IF sorted = <<>> THEN <<name>>
    ELSE IF name <= Head(sorted) THEN <<name>> \o sorted
    ELSE <<Head(sorted)>> \o insertSorted(Tail(sorted), name)

RECURSIVE sortStrings(_)
sortStrings(names) ==
    IF names = <<>> THEN <<>>
    ELSE insertSorted(sortStrings(Front(names)), Last(names))

\* the declarations of Fonts (lines 1010-1012)
FontsStart ==
    /\ fn.pc = "Fonts"
    /\ fn' = [fn EXCEPT !.pc = "range"]
    /\ UNCHANGED <<rtVars, it, tt, sd, tl, sz>>

\* one iteration of the range over t.fonts (lines 1013-1017); the order of
\* the iteration over a map is not specified
FontsRange ==
    /\ fn.pc = "range"
    /\ \E font \in fn.rest :
          LET name == fn.name[font]
          IN  fn' = [fn EXCEPT !.rest = @ \ {font},
                               !.fontNames = Append(@, name),
                               !.fontMap = (name :> font) @@ @]
    /\ UNCHANGED <<rtVars, it, tt, sd, tl, sz>>

\* the fonts of the sorted names (lines 1018-1022)
fontsOf(fontNames, fontMap) == [n \in 1..Len(fontNames) |-> fontMap[fontNames[n]]]

\* the sort and the second loop of Fonts (lines 1018-1022)
fontsSorted(names, fontMap) == fontsOf(sortStrings(names), fontMap)

FontsReturn ==
    /\ fn.pc = "range"
    /\ fn.rest = {}
    /\ fn' = [fn EXCEPT !.pc = "done", !.out = fontsSorted(fn.fontNames, fn.fontMap)]
    /\ UNCHANGED <<rtVars, it, tt, sd, tl, sz>>

\* a Text with any set of the fonts, each font with any of the names
InitFonts ==
    /\ RTIdle
    /\ ItIdle
    /\ TTIdle
    /\ SdIdle
    /\ TlIdle
    /\ SzIdle
    /\ \E name \in [FontIds -> FontNames] : \E fonts \in SUBSET FontIds :
          fn = [pc |-> "Fonts", name |-> name, fonts |-> fonts, rest |-> fonts,
                fontNames |-> <<>>, fontMap |-> <<>>, out |-> <<>>]

NextFonts ==
    \/ FontsStart
    \/ FontsRange
    \/ FontsReturn

SpecFonts == InitFonts /\ [][NextFonts]_vars

----------------------------------------------------------------------------
(* Text.Size (text.go:952-955) and the box of the Text (text.go:605-618) *)

\* lines 605-618: in a vertical writing mode the locals width and height, and
\* halign and valign, change places, and the alignments are renamed
layoutBox(mode, width, height, halign, valign) ==
    IF mode # "HorizontalTB"
    THEN [width  |-> height,
          height |-> width,
          halign |-> IF valign = "Top" THEN "Left"
                     ELSE IF valign = "Bottom" THEN "Right" ELSE valign,
          valign |-> IF halign = "Left" THEN "Top"
                     ELSE IF halign = "Right" THEN "Bottom" ELSE halign]
    ELSE [width |-> width, height |-> height, halign |-> halign, valign |-> valign]

\* lines 715-724: the Text takes its box from the locals width and height as
\* they are after line 618; no later line of ToText assigns them
ToTextBox ==
    /\ sz.pc = "toText"
    /\ LET box == layoutBox(sz.mode, sz.width, sz.height, sz.halign, sz.valign)
       IN  sz' = [sz EXCEPT !.pc = "text",
                            !.t = [WritingMode |-> sz.mode, width |-> box.width,
                                   height |-> box.height]]
    /\ UNCHANGED <<rtVars, it, tt, fn, sd, tl>>

\* Text.Size
Size(t) == <<t.width, t.height>>

\* a call of Size on the Text
SizeCall ==
    /\ sz.pc = "text"
    /\ sz' = [sz EXCEPT !.pc = "done", !.out = Size(sz.t)]
    /\ UNCHANGED <<rtVars, it, tt, fn, sd, tl>>

\* ToText with any box, alignments and writing mode, then Size
InitSize ==
    /\ RTIdle
    /\ ItIdle
    /\ TTIdle
    /\ FnIdle
    /\ SdIdle
    /\ TlIdle
    /\ \E mode \in WritingModes, width \in Widths, height \in Heights,
          halign \in HAligns, valign \in VAligns :
          sz = [pc |-> "toText", mode |-> mode, width |-> width, height |-> height,
                halign |-> halign, valign |-> valign,
                t |-> [WritingMode |-> mode, width |-> 0, height |-> 0], out |-> <<0, 0>>]

NextSize ==
    \/ ToTextBox
    \/ SizeCall

SpecSize == InitSize /\ [][NextSize]_vars

----------------------------------------------------------------------------
(* Claims about the RichText builder *)

\* C1: after any sequence of WriteString, SetFace, SetFaceSpan and AddCanvas
\* calls the face-offset list locs is non-empty, starts with 0 and is strictly
\* increasing.
C1_LocsStrictlyIncreasing ==
    /\ Len(locs) > 0
    /\ locs[1] = 0
    /\ \A k \in 1..(Len(locs) - 1) : locs[k] < locs[k + 1]

\* C2: SetFaceSpan(face, start, end) with 0 <= start < end and start < Len()
\* assigns face to every rune whose byte offset lies in [start, min(end, Len())),
\* leaves the face of every other rune as it was, and leaves the buffer alone.
C2_SetFaceSpanAssignsRange ==
    [][\A face \in Faces, start \in RuneStarts(text) \ {ByteLen(text)} :
          \A end \in SpanEnds(text, start) \ {start} :
             SetFaceSpan(face, start, end) =>
                /\ ~panicked'
                /\ text' = text
                /\ \A r \in 0..(Len(text) - 1) :
                      FaceOf(locs', faces', r) =
                         IF start <= ByteOffset(text, r) /\ ByteOffset(text, r) < end
                         THEN face
                         ELSE FaceOf(locs, faces, r)]_vars

\* C3: after any sequence of WriteString and SetFace calls no two consecutive
\* entries of the face list hold the same face.
C3_NoAdjacentSameFace ==
    \A k \in 1..(Len(faces) - 1) : faces[k] # faces[k + 1]

----------------------------------------------------------------------------
(* Claims about ScriptItemizer *)

RECURSIVE ConcatTexts(_)
ConcatTexts(items) == IF items = <<>> THEN <<>> ELSE Head(items).Text \o ConcatTexts(Tail(items))

\* the 0-based offset of the first rune of run n (1-based) of the result
RunStart(items, n) == Len(ConcatTexts(Take(items, n - 1)))

\* C4: the texts of the returned runs, concatenated in order, are the input;
\* every run is non-empty; a non-empty input yields at least one run and the
\* empty input yields the empty list.
C4_RunsPartitionInput ==
    it.pc = "done" =>
        /\ ConcatTexts(it.items) = it.runes
        /\ \A n \in 1..Len(it.items) : it.items[n].Text # <<>>
        /\ (it.runes # <<>> => Len(it.items) >= 1)
        /\ (it.runes = <<>> => it.items = <<>>)

C4_Witness ==
    /\ it.pc = "done"
    /\ Len(it.items) >= 2
    /\ \E n \in 1..Len(it.items) : Len(it.items[n].Text) >= 2

\* C5: in every returned run all runes have one embedding level, all its
\* runes with a concrete script have the same script, which is the Script of
\* the run; and a run starts at rune p > 0 exactly when the level changes there
\* or the effective script changes there from one concrete script to another.
C5_RunsAreHomogeneous ==
    it.pc = "done" =>
        /\ \A n \in 1..Len(it.items) :
              LET a == RunStart(it.items, n)
                  b == a + Len(it.items[n].Text)
              IN  /\ \A p, q \in a..(b - 1) : At(it.levels, p) = At(it.levels, q)
                  /\ \A p \in a..(b - 1) :
                        IsConcrete(LookupScript(At(it.runes, p))) =>
                            it.items[n].Script = LookupScript(At(it.runes, p))
        /\ \A p \in 1..(Len(it.runes) - 1) :
              (\E n \in 2..Len(it.items) : RunStart(it.items, n) = p)
                 <=> \/ At(it.levels, p - 1) # At(it.levels, p)
                     \/ /\ At(it.eff, p - 1) # At(it.eff, p)
                        /\ IsConcrete(At(it.eff, p - 1))
                        /\ IsConcrete(At(it.eff, p))

C5_Witness ==
    /\ it.pc = "done"
    /\ \E n \in 1..(Len(it.items) - 1) :
          LET p == RunStart(it.items, n + 1)
          IN  /\ At(it.levels, p - 1) = At(it.levels, p)
              /\ it.items[n].Script = "Latin"
              /\ it.items[n + 1].Script = "Greek"
              /\ Len(it.items[n + 1].Text) >= 2

----------------------------------------------------------------------------
(* Claims about the clean-up of the items *)

RECURSIVE SumSizes(_)
SumSizes(items) == IF items = <<>> THEN 0 ELSE Head(items).Size + SumSizes(Tail(items))

\* C6: the pass preserves the total glyph count: on the items and the
\* breakpoints that ToText hands to it, the sum of the Size fields of the items
\* after the pass is the sum before it.
C6_CoalescingKeepsTotalSize ==
    tt.pc = "coalesced" => SumSizes(tt.items) = SumSizes(tt.before)

\* the pass has ended on a text of three glyphs or more: the empty indent box
\* is gone, and a space went into the break next to it, which now covers two
\* glyphs or more
C6_Witness ==
    /\ tt.pc = "coalesced"
    /\ SumSizes(tt.before) >= 3
    /\ At(tt.before, 0) = Box(0, 0)
    /\ tt.at[1] # 0
    /\ Len(tt.items) <= Len(tt.before) - 3
    /\ \E m \in 1..Len(tt.items) : tt.items[m].Type # "Box" /\ tt.items[m].Size >= 2

\* C17: Reset puts the RichText back in its initial state, whatever calls came
\* before: the buffer is empty, locs is [0] and faces is the one face the
\* RichText was created with.
C17_ResetRestoresInitialState ==
    [][Reset => (text' = <<>> /\ locs' = <<0>> /\ faces' = <<defaultFace>>)]_vars

\* C18: a call of AddCanvas appends one object to the table and one rune to
\* the buffer, the rune of the index of the object; the face of that rune is
\* the nil face, and the face that is active when the call returns is the
\* face that was active before it.
C18_AddCanvasAppendsPlaceholder ==
    [][AddCanvas =>
          /\ objects' = objects + 1
          /\ text' = Append(text, objects)
          /\ FaceOf(locs', faces', Len(text)) = NilFace
          /\ \A r \in 0..(Len(text) - 1) :
                FaceOf(locs, faces, r) # NilFace => FaceOf(locs', faces', r) # NilFace
          /\ Last(faces') = Last(faces)]_vars

\* C19: Fonts returns every font of the Text exactly once, in the order of
\* the names of the fonts, also when two fonts have the same name.
C19_FontsReturnsEachFontOnce ==
    fn.pc = "done" =>
       /\ Len(fn.out) = Cardinality(fn.fonts)
       /\ {fn.out[n] : n \in 1..Len(fn.out)} = fn.fonts
       /\ \A n \in 1..(Len(fn.out) - 1) : fn.name[fn.out[n]] <= fn.name[fn.out[n + 1]]

\* C20 as stated: in a vertical writing mode, for every text orientation and
\* every direction of the face, scriptDirection returns LeftToRight with a
\* clockwise rotation for every script that is not a vertical script, and
\* LeftToRight with the rotation of the script for the scripts that have one;
\* in HorizontalTB it returns no rotation and neither TopToBottom nor
\* BottomToTop.
C20_VerticalModeRotatesEveryOrientation ==
    sd.pc = "done" =>
       /\ (sd.mode # "HorizontalTB" /\ ~IsVerticalScript(sd.script)) =>
             (sd.outDirection = "LeftToRight" /\ sd.outRotation = "CW")
       /\ (sd.mode # "HorizontalTB" /\ sd.script \in {"Mongolian", "PhagsPa"}) =>
             (sd.outDirection = "LeftToRight" /\ sd.outRotation = "CW")
       /\ (sd.mode # "HorizontalTB" /\ sd.script \in {"Ogham", "OldTurkic"}) =>
             (sd.outDirection = "LeftToRight" /\ sd.outRotation = "CCW")
       /\ sd.mode = "HorizontalTB" =>
             (sd.outRotation = "NoRotation" /\ sd.outDirection \notin {"TopToBottom", "BottomToTop"})

\* C20, amended: in a vertical writing mode and for every direction of the
\* face, a script that is not a vertical script gets LeftToRight with a
\* clockwise rotation when the text orientation is Natural, and TopToBottom
\* with no rotation when it is Upright; Mongolian and Phags-pa get LeftToRight
\* with a clockwise rotation, Ogham and Old Turkic LeftToRight with a
\* counterclockwise rotation, for every orientation; every other vertical
\* script gets TopToBottom with no rotation. In HorizontalTB the rotation is
\* none and the direction is neither TopToBottom nor BottomToTop.
C20_VerticalModeRotatesNaturalOrientation ==
    sd.pc = "done" =>
       /\ (sd.mode # "HorizontalTB" /\ ~IsVerticalScript(sd.script) /\ sd.orient = "Natural") =>
             (sd.outDirection = "LeftToRight" /\ sd.outRotation = "CW")
       /\ (sd.mode # "HorizontalTB" /\ ~IsVerticalScript(sd.script) /\ sd.orient = "Upright") =>
             (sd.outDirection = "TopToBottom" /\ sd.outRotation = "NoRotation")
       /\ (sd.mode # "HorizontalTB" /\ sd.script \in {"Mongolian", "PhagsPa"}) =>
             (sd.outDirection = "LeftToRight" /\ sd.outRotation = "CW")
       /\ (sd.mode # "HorizontalTB" /\ sd.script \in {"Ogham", "OldTurkic"}) =>
             (sd.outDirection = "LeftToRight" /\ sd.outRotation = "CCW")
       /\ (sd.mode # "HorizontalTB" /\ IsVerticalScript(sd.script)
              /\ sd.script \notin {"Mongolian", "PhagsPa", "Ogham", "OldTurkic"}) =>
             (sd.outDirection = "TopToBottom" /\ sd.outRotation = "NoRotation")
       /\ sd.mode = "HorizontalTB" =>
             (sd.outRotation = "NoRotation" /\ sd.outDirection \notin {"TopToBottom", "BottomToTop"})

\* Latin text with a right-to-left face in an upright vertical text
C20_Witness ==
    /\ sd.pc = "done"
    /\ sd.mode = "VerticalRL" /\ sd.orient = "Upright"
    /\ sd.script = "Latin" /\ sd.direction = "RightToLeft"
    /\ sd.outDirection = "TopToBottom"

----------------------------------------------------------------------------
(* Claims about ToText *)

\* the items that are penalties with a cost of at most -Infinity
forcedPenalties(items) ==
    {p \in 0..(Len(items) - 1) :
        At(items, p).Type = "Penalty" /\ At(items, p).Penalty <= -Infinity}

\* the breakpoints are at the forced penalties, one at each and in order, and
\* the width of each is the sum of the widths of the items that are not
\* penalties since the breakpoint before it
breaksAtForcedPenalties(items, breaks) ==
    /\ {breaks[n].Position : n \in 1..Len(breaks)} = forcedPenalties(items)
    /\ Len(breaks) = Cardinality(forcedPenalties(items))
    /\ \A n \in 1..Len(breaks) :
          LET prev == IF n = 1 THEN -1 ELSE breaks[n - 1].Position
          IN  /\ prev < breaks[n].Position
              /\ breaks[n].Width = naturalWidth(items, prev + 1, breaks[n].Position)

\* ToText has computed the breakpoints for a box without a width
zeroWidthBreaks == tt.pc = "coalesce" /\ tt.width = 0

\* C16 as stated: with a box width of 0 ToText does not call Linebreak; there
\* is a breakpoint at every item that is a penalty with a cost of at most
\* -Infinity and nowhere else, the width of a breakpoint is the sum of the
\* widths of the items that are not penalties since the breakpoint before it,
\* and the overflow flag is false.
C16_ZeroWidthBreaksAtForcedPenalties ==
    zeroWidthBreaks =>
       /\ ~tt.linebreak
       /\ breaksAtForcedPenalties(tt.items, tt.breaks)
       /\ ~tt.overflows

\* C16, amended: the same when there are items; when there is no item (the
\* text is empty) there is one breakpoint, at position 0 with width 0.
C16_ZeroWidthBreaksAtForcedPenaltiesOfItems ==
    zeroWidthBreaks =>
       /\ ~tt.linebreak
       /\ tt.items # <<>> => breaksAtForcedPenalties(tt.items, tt.breaks)
       /\ tt.items = <<>> => tt.breaks = <<[Position |-> 0, Ratio |-> 0, Width |-> 0]>>
       /\ ~tt.overflows

\* two lines with text, the first ended by a line break, in a box without a width
C16_Witness ==
    /\ zeroWidthBreaks
    /\ Len(tt.breaks) = 2
    /\ tt.breaks[1].Width > 0
    /\ tt.breaks[2].Width > 0

\* the Text that ToText returned
Returned == tt.pc = "done"

\* the index of the line the item at position p is on
lineOf(t, p) == Cardinality({n \in 1..Len(t.breaks) : t.breaks[n].Position < p})

\* the number of glyphs of the items before position p
glyphsBefore(t, p) == SumSizes(Take(t.items, p))

\* the shaped glyphs: one for every rune of the text
shapedGlyphs(t) == Len(t.glyphs) - 1

\* the heights of line n of the Text, n from 0: of its spans when it has
\* spans, of the face at its break when it has none
heightsOfLine(t, n) ==
    IF Len(At(t.lines, n).spans) = 0 /\ n < Len(t.breaks) /\ t.items # <<>>
    THEN faceHeights(At(t.faces, index(t.glyphIndices,
                                       glyphsBefore(t, At(t.breaks, n).Position))))
    ELSE lineHeights(At(t.lines, n))

\* C13: in horizontal mode, aligned to the top and without overflow, the
\* baseline of the first line is the ascent of the first line, whatever the
\* line stretch, and the baseline of every other line is the baseline of the
\* line before it plus (1 + lineStretch) times the bottom of that line plus
\* (1 + lineStretch) times the ascent of the line itself.
C13_BaselinesFollowLineSpacing ==
    (Returned /\ tt.cut = -1 /\ tt.mode = "HorizontalTB" /\ tt.valign = "Top") =>
        \A n \in 0..(Len(tt.lines) - 1) :
            At(tt.lines, n).y =
                IF n = 0 THEN heightsOfLine(tt, 0).ascent
                ELSE At(tt.lines, n - 1).y
                     + (1 + tt.lineStretch) * heightsOfLine(tt, n - 1).bottom
                     + (1 + tt.lineStretch) * heightsOfLine(tt, n).ascent

\* three lines of two faces, one of them empty, with a line stretch
C13_Witness ==
    /\ Returned /\ tt.cut = -1
    /\ tt.lineStretch = 1
    /\ Len(tt.lines) = 3
    /\ \E n \in 1..3 : tt.lines[n].spans = <<>>
    /\ \E n \in 1..3 : tt.lines[n].spans # <<>> /\ tt.lines[n].spans[1].Face = "B"

\* the loop of ToText is at the first item of a line
atLineStart(t) ==
    /\ t.pc = "assembling"
    /\ t.position < Len(t.items)
    /\ \/ t.position = 0
       \/ \E n \in 1..Len(t.breaks) : t.breaks[n].Position = t.position - 1

\* the breakpoint that ends the line of the item at position p
breakOfLine(t, p) ==
    t.breaks[CHOOSE n \in 1..Len(t.breaks) :
                /\ p <= t.breaks[n].Position
                /\ \A m \in 1..Len(t.breaks) :
                      p <= t.breaks[m].Position => t.breaks[n].Position <= t.breaks[m].Position]

\* C14: every line starts at width - lineWidth when the text is aligned to the
\* right, at half of width - lineWidth when it is centred, and at 0 otherwise,
\* lineWidth being the Width of the breakpoint that ends that line.
C14_LineStartsByAlignment ==
    atLineStart(tt) =>
        LET lineWidth == breakOfLine(tt, tt.position).Width
        IN  /\ tt.halign = "Right" => tt.x = tt.width - lineWidth
            /\ tt.halign \in {"Center", "Middle"} => 2 * tt.x = tt.width - lineWidth
            /\ tt.halign \notin {"Right", "Center", "Middle"} => tt.x = 0

\* the second line of a text that is aligned to the right, the lines of
\* different widths
C14_Witness ==
    /\ atLineStart(tt)
    /\ tt.halign = "Right"
    /\ tt.width = 8
    /\ tt.j = 1
    /\ tt.breaks[1].Width # tt.breaks[2].Width
    /\ tt.x = 8 - tt.breaks[2].Width

\* C15: without overflow, the height of the lines that the vertical
\* alignment uses ends at the descent of the last line, without the line gap
\* below it, for one line as for several: the baseline of the last line
\* before the shift plus its descent. So the last line of a text that is
\* aligned to the bottom has its baseline plus its descent at height, and the
\* lines of a centred text are shifted by half of height minus that baseline
\* minus that descent.
C15_ContentHeightEndsAtLastDescent ==
    (Returned /\ tt.cut = -1 /\ Len(tt.lines) > 0) =>
        LET last     == Len(tt.lines) - 1
            descent  == heightsOfLine(tt, last).descent
            baseline == At(tt.lines, last).y - tt.dy
        IN  /\ tt.y = baseline + descent
            /\ tt.valign = "Bottom" => At(tt.lines, last).y + descent = tt.height
            /\ tt.valign \in {"Center", "Middle"} => 2 * tt.dy = tt.height - baseline - descent

\* spans m to n of a line are all of right-to-left or bottom-to-top runs
reversedGroup(spans, m, n) == \A q \in m..n : IsReversed(spans[q].Direction)

\* the spans of a line are placed as C11 says
reversedSpansMirrored(spans) ==
    /\ \A m, n \in 1..Len(spans) :
          (m < n /\ reversedGroup(spans, m, n)) =>
             \* the later span lies to the left of the earlier one
             /\ spans[n].X + spans[n].Width <= spans[m].X
             \* the gap between two neighbours is the gap they were created with
             /\ n = m + 1 =>
                   spans[m].X - (spans[n].X + spans[n].Width)
                      = spans[n].X0 - (spans[m].X0 + spans[m].Width)
             \* a whole group lies where it would lie without the reordering
             /\ ((m = 1 \/ ~IsReversed(spans[m - 1].Direction))
                   /\ (n = Len(spans) \/ ~IsReversed(spans[n + 1].Direction))) =>
                   /\ spans[n].X = spans[m].X0
                   /\ spans[m].X + spans[m].Width = spans[n].X0 + spans[n].Width
    /\ \A m, n \in 1..Len(spans) :
          m # n => \/ spans[m].X + spans[m].Width <= spans[n].X
                   \/ spans[n].X + spans[n].Width <= spans[m].X

\* C11: on a line with two or more consecutive spans of right-to-left runs,
\* the X of the spans puts these spans in the reverse of their logical order:
\* a later span lies to the left of an earlier one, the gaps between them are
\* mirrored, the group lies where it would lie without the reordering, and no
\* two spans of the line overlap.
C11_ReversedSpansMirrored ==
    Returned => \A j \in 1..Len(tt.lines) : reversedSpansMirrored(tt.lines[j].spans)

\* the glyphs of a span that came from the shaper: all of them but the
\* hyphen that was appended at a soft hyphen
shaperGlyphs(t, span) ==
    SelectSeq(spanGlyphs(t.glyphs, span), LAMBDA g : g.id >= 0)

\* C12: the reversal of the glyphs of a right-to-left or bottom-to-top run
\* after shaping is undone once: in every span of such a run the glyphs are in
\* the order the shaper returned them, a part of its output without gaps (the
\* shaper returns the glyphs of such a run last rune first), with the
\* clusters they were given, however the run is split into boxes, lines and
\* faces; the glyphs of a run of another direction stay in the order the
\* shaper returned them.
C12_ReversalUndoneOnce ==
    Returned =>
        \A j \in 1..Len(tt.lines) : \A m \in 1..Len(tt.lines[j].spans) :
            LET span == tt.lines[j].spans[m]
                gs   == shaperGlyphs(tt, span)
            IN  span.ids = <<>> =>
                   /\ Len(gs) >= 1
                   /\ \A n \in 1..(Len(gs) - 1) :
                         gs[n + 1].id = gs[n].id + (IF IsReversed(span.Direction) THEN -1 ELSE 1)
                   /\ \A n \in 1..Len(gs) :
                         /\ gs[n].Cluster = ByteOffset(tt.log, gs[n].id)
                         /\ gs[n].Text = At(tt.log, gs[n].id)
                         /\ At(tt.directions, index(tt.glyphIndices, gs[n].id)) = span.Direction

\* one right-to-left run laid out on two lines, a span of two glyphs on one
\* line and a span on the other
C12_Witness ==
    /\ Returned
    /\ Len(tt.directions) = 1
    /\ Len(tt.lines) = 2
    /\ \A j \in 1..2 : \E m \in 1..Len(tt.lines[j].spans) :
          IsReversed(tt.lines[j].spans[m].Direction)
    /\ \E j \in 1..2 : \E m \in 1..Len(tt.lines[j].spans) :
          /\ Len(shaperGlyphs(tt, tt.lines[j].spans[m])) = 2
          /\ spanGlyphs(tt.glyphs, tt.lines[j].spans[m])[1].Cluster > 0

\* C7: when the height is not zero and a line does not fit, the Text that is
\* returned has Overflows set; when it is the first line that does not fit,
\* the Text has no lines and String() is empty.
C7_HeightOverflowSetsFlag ==
    (Returned /\ tt.cut >= 0) =>
        /\ tt.Overflows
        /\ tt.cut = 0 => (tt.lines = <<>> /\ tt.text = <<>>)

\* C8: when line j > 0 is the first line that does not fit, the Text keeps
\* lines 0..j-1 only and String() is the logical text up to the end of line
\* j-1, with or without the glyphs of the break that ends that line.
C8_OverflowTruncatesToPreviousLine ==
    (Returned /\ tt.cut > 0) =>
        LET brk == At(tt.breaks, tt.cut - 1).Position
        IN  /\ Len(tt.lines) = tt.cut
            /\ tt.text \in {Take(tt.log, glyphsBefore(tt, brk)),
                            Take(tt.log, glyphsBefore(tt, brk + 1))}

\* the Text fields of the spans, line after line and span after span
RECURSIVE spanTexts(_, _)
spanTexts(spans, n) ==
    IF n >= Len(spans) THEN <<>> ELSE At(spans, n).Text \o spanTexts(spans, n + 1)

RECURSIVE lineTexts(_, _)
lineTexts(lines, n) ==
    IF n >= Len(lines) THEN <<>>
    ELSE spanTexts(At(lines, n).spans, 0) \o lineTexts(lines, n + 1)

IsPrefix(s, t) == Len(s) <= Len(t) /\ s = Take(t, Len(s))

\* a sequence without the runes that satisfy drop
RECURSIVE without(_, _)
without(s, r) ==
    IF s = <<>> THEN <<>>
    ELSE (IF Head(s) = r THEN <<>> ELSE <<Head(s)>>) \o without(Tail(s), r)

\* C9 as it was stated: the Text fields of the spans, concatenated in line
\* order and in creation order within a line, are a prefix of the logical text.
C9_SpanTextsArePrefix ==
    Returned => IsPrefix(lineTexts(tt.lines, 0), tt.log)

\* the item at position p is a box, or a glue or the break of its line that has
\* a box before it on its line: the items whose text goes to a span
hasBoxBefore(t, p) ==
    \E q \in 0..(p - 1) : At(t.items, q).Type = "Box" /\ lineOf(t, q) = lineOf(t, p)

IsBreak(t, p) == \E n \in 1..Len(t.breaks) : t.breaks[n].Position = p

givesText(t, p) ==
    \/ ~IsBreak(t, p) /\ At(t.items, p).Type = "Box"
    \/ (IsBreak(t, p) \/ At(t.items, p).Type = "Glue") /\ hasBoxBefore(t, p)

\* the runes of the items from position p on that give their text to a span,
\* on the lines that were kept
RECURSIVE keptText(_, _)
keptText(t, p) ==
    IF p >= Len(t.items) THEN <<>>
    ELSE (IF givesText(t, p) /\ lineOf(t, p) < Len(t.lines)
          THEN SubSeq(t.log, glyphsBefore(t, p) + 1, glyphsBefore(t, p + 1))
          ELSE <<>>) \o keptText(t, p + 1)

\* C9, amended: the Text fields of the spans, concatenated in line order and
\* in creation order within a line, and without the hyphens that are appended
\* where a line ends at a soft hyphen, are the logical text of the lines that
\* were kept without the soft hyphens that are not the break of a line and
\* without the spaces and breaks that have no box before them on their line.
C9_SpanTextsAreKeptText ==
    Returned => without(lineTexts(tt.lines, 0), HyphenMinus) = keptText(tt, 0)

\* a Text of which a line ends with an appended hyphen, and of which an item
\* that covers a glyph gave its text to no span
C9_Witness ==
    /\ Returned
    /\ \E p \in 0..(Len(tt.items) - 1) :
          At(tt.items, p).Size > 0 /\ ~givesText(tt, p) /\ lineOf(tt, p) < Len(tt.lines)
    /\ \E n \in 1..Len(tt.lines) : \E m \in 1..Len(tt.lines[n].spans) :
          \E k \in 1..Len(tt.lines[n].spans[m].Text) :
             tt.lines[n].spans[m].Text[k] = HyphenMinus
    /\ ~IsPrefix(lineTexts(tt.lines, 0), tt.log)

\* the number of spans that hold the shaped glyph id
spansWith(t, id) ==
    SumSeq([n \in 1..Len(t.lines) |->
              Cardinality({m \in 1..Len(t.lines[n].spans) :
                 \E k \in 1..t.lines[n].spans[m].n :
                    spanGlyphs(t.glyphs, t.lines[n].spans[m])[k].id = id})])

\* the shaped glyphs that the box items cover
boxGlyphs(t) ==
    {id \in 0..(shapedGlyphs(t) - 1) :
        \E p \in 0..(Len(t.items) - 1) :
           /\ At(t.items, p).Type = "Box" /\ ~IsBreak(t, p)
           /\ glyphsBefore(t, p) <= id /\ id < glyphsBefore(t, p + 1)}

\* C10 as it was stated: every shaped glyph is in the Glyphs of at most one
\* span and every glyph of a box item in exactly one; the cursor i is, after
\* the last item, the number of shaped glyphs; the appended hyphen overwrites
\* no glyph of a span.
C10_GlyphsInOneSpan ==
    Returned =>
        /\ \A id \in 0..(shapedGlyphs(tt) - 1) : spansWith(tt, id) <= 1
        /\ \A id \in boxGlyphs(tt) : spansWith(tt, id) = 1
        /\ tt.i = shapedGlyphs(tt)
        /\ tt.lost \cap boxGlyphs(tt) = {}

\* the glyphs of the box items on the lines that were kept
keptBoxGlyphs(t) ==
    {id \in boxGlyphs(t) :
        \E p \in 0..(Len(t.items) - 1) :
           /\ glyphsBefore(t, p) <= id /\ id < glyphsBefore(t, p + 1)
           /\ At(t.items, p).Size > 0
           /\ lineOf(t, p) < Len(t.lines)}

\* C10, amended: every shaped glyph is in the Glyphs of at most one span;
\* every glyph of a box item on a line that is kept is in exactly one span,
\* and the glyphs of a line that did not fit the height, and of the lines
\* after it, are in none; before every item the cursor i is the sum of Size of
\* the items before it, and when every line fits the loop ends at the last
\* item with i plus the Size of that item the number of shaped glyphs; the
\* appended hyphen overwrites no glyph of a box, and so no glyph of a span.
C10_GlyphsOfKeptLinesInOneSpan ==
    /\ tt.pc = "assembling" => tt.i = glyphsBefore(tt, tt.position)
    /\ Returned =>
          /\ \A id \in 0..(shapedGlyphs(tt) - 1) : spansWith(tt, id) <= 1
          /\ \A id \in boxGlyphs(tt) :
                spansWith(tt, id) = IF id \in keptBoxGlyphs(tt) THEN 1 ELSE 0
          /\ tt.cut = -1 =>
                tt.i + (IF tt.items = <<>> THEN 0 ELSE Last(tt.items).Size) = shapedGlyphs(tt)
          /\ tt.lost \cap boxGlyphs(tt) = {}

\* a Text of which a line ends with an appended hyphen, and of which a later
\* line, with a box, did not fit
C10_Witness ==
    /\ Returned
    /\ tt.lost # {}
    /\ tt.cut > 0
    /\ \E id \in boxGlyphs(tt) : spansWith(tt, id) = 0
    /\ \E id \in boxGlyphs(tt) : spansWith(tt, id) = 1

\* C21: ToText on a rich text whose buffer is empty fails nowhere and returns
\* a Text that has no line, or one line without spans, for every box and
\* every alignment.
C21_EmptyTextLaysOutWithoutFailure ==
    (text = <<>> /\ tt.pc # "idle") =>
        /\ tt.pc # "panic"
        /\ Returned => \/ Len(tt.lines) = 0
                       \/ Len(tt.lines) = 1 /\ tt.lines[1].spans = <<>>

\* C22: Size of the Text returns the width and the height of the box as the
\* caller gave them to ToText, in every writing mode.
C22_SizeReturnsBoxAsGiven ==
    sz.pc = "done" => sz.out = <<sz.width, sz.height>>

\* the sum of the widths of the spans
RECURSIVE spansWidth(_)
spansWidth(spans) ==
    IF spans = <<>> THEN 0 ELSE Head(spans).Width + spansWidth(Tail(spans))

\* C23: every line of the Text of NewTextLine is placed by the alignment as a
\* whole: each span starts where the span before it ends, and the first span
\* starts at 0 for Left, at minus half the width of the line for Center and
\* Middle, and at minus the width of the line for Right.
C23_TextLineSpansContiguous ==
    tl.pc = "done" =>
        \A n \in 1..Len(tl.t.lines) :
            LET spans == tl.t.lines[n].spans
            IN  /\ spans # <<>>
                /\ \A k \in 2..Len(spans) : spans[k].X = spans[k - 1].X + spans[k - 1].Width
                /\ tl.halign = "Left" => spans[1].X = 0
                /\ tl.halign \in {"Center", "Middle"} => 2 * spans[1].X = -spansWidth(spans)
                /\ tl.halign = "Right" => spans[1].X = -spansWidth(spans)

\* the breakpoints as they were given to the pass: there are items, the
\* positions are strictly increasing and the last one is the last item
breaksGiven(t) ==
    /\ Len(t.before) > 0
    /\ Len(t.chosen) > 0
    /\ \A n \in 2..Len(t.chosen) : t.chosen[n - 1] < t.chosen[n]
    /\ t.chosen[1] >= 0
    /\ t.chosen[Len(t.chosen)] = Len(t.before) - 1

\* the number of breakpoints the pass has gone past
breaksMet(t) == IF t.pc = "coalescing" THEN t.j ELSE Len(t.breaks)

\* C24: during and after the clean-up of the items, for breakpoints whose
\* positions are strictly increasing and end at the last item: the cursor into
\* the breakpoints stays inside them; every breakpoint that was passed points
\* at the item it pointed at before the pass, which is still an item of its
\* own, and the positions passed are strictly increasing; every breakpoint not
\* yet passed still has its item; the assembler is never past the breakpoint
\* of its line, and without a height limit the Text has one line for every
\* breakpoint.
C24_BreakpointsKeepTheirItems ==
    ("chosen" \in DOMAIN tt /\ tt.pc # "coalesce" /\ breaksGiven(tt)) =>
        /\ tt.pc # "panic"
        /\ tt.pc = "coalescing" =>
              /\ tt.j <= Len(tt.breaks)
              /\ tt.k < Len(tt.items) => tt.j < Len(tt.breaks)
        /\ tt.pc = "coalesced" => tt.j = Len(tt.breaks)
        /\ \A n \in 1..Len(tt.breaks) :
              IF n <= breaksMet(tt)
              THEN /\ tt.breaks[n].Position \in 0..(Len(tt.items) - 1)
                   /\ At(tt.at, tt.breaks[n].Position) = tt.chosen[n]
                   /\ At(tt.items, tt.breaks[n].Position).Type = At(tt.before, tt.chosen[n]).Type
                   /\ At(tt.items, tt.breaks[n].Position).Width = At(tt.before, tt.chosen[n]).Width
                   /\ At(tt.items, tt.breaks[n].Position).Penalty
                         = At(tt.before, tt.chosen[n]).Penalty
                   /\ n > 1 => tt.breaks[n - 1].Position < tt.breaks[n].Position
              ELSE /\ tt.breaks[n].Position = tt.chosen[n]
                   /\ \E m \in 1..Len(tt.at) : tt.at[m] = tt.chosen[n]
        /\ tt.pc = "assembling" =>
              /\ tt.j < Len(tt.breaks)
              /\ tt.position <= At(tt.breaks, tt.j).Position
              /\ Len(tt.lines) = tt.j + 1
        /\ (Returned /\ tt.height = 0) =>
              /\ Len(tt.lines) = Len(tt.breaks)
              /\ tt.j = Len(tt.breaks) - 1

\* a text of two lines or more was laid out without a height limit, with a
\* width, and the first breakpoint was moved by the pass
C24_Witness ==
    /\ Returned
    /\ breaksGiven(tt)
    /\ tt.height = 0
    /\ tt.width # 0
    /\ Len(tt.breaks) >= 2
    /\ tt.breaks[1].Position < tt.chosen[1] - 1
    /\ Len(tt.lines) = Len(tt.breaks)

\* the runes that entry k of rt.faces is looked up for
runesOfEntry(ls, s, k) == {r \in 0..(Len(s) - 1) : index(ls, r) = k}

\* C25: whatever calls were made on the RichText, every rune with the nil
\* face is a placeholder of an object of the table, and every nil entry of
\* rt.faces is the face of exactly one rune (so that ToText reads rt.objects
\* in range for every rune of a nil run, finds a face for every rune of text,
\* and puts one object in every span of an object).
C25_NilFaceOnlyOnPlaceholders ==
    ~panicked =>
        /\ \A r \in 0..(Len(text) - 1) :
              FaceOf(locs, faces, r) = NilFace => At(text, r) \in 0..(objects - 1)
        /\ \A k \in 0..(Len(faces) - 1) :
              At(faces, k) = NilFace => Cardinality(runesOfEntry(locs, text, k)) = 1

====
